---- MODULE Spec2Model ----
(***************************************************************************)
(* A model of @ambak/express-logger: the trace-context engine              *)
(* (src/context/trace-context.js), the request context and its ambient     *)
(* propagation (src/context/index.js, src/context/async-context.js), and   *)
(* the request / error middleware (src/middleware/request-logger.js,       *)
(* src/middleware/error-logger.js).                                        *)
(*                                                                         *)
(* JavaScript strings are sequences of one-character strings, so that      *)
(* split, trim, padStart, the regular expressions and the serializers are  *)
(* computed character by character as the code computes them.              *)
(***************************************************************************)
EXTENDS Integers, Sequences, FiniteSets, TLC

(***************************************************************************)
(* Strings                                                                 *)
(***************************************************************************)
Digits == {"0", "1", "2", "3", "4", "5", "6", "7", "8", "9"}

\* [0-9a-f]
HexLower == Digits \cup {"a", "b", "c", "d", "e", "f"}

\* [0-9a-f] under the i flag
HexAny == HexLower \cup {"A", "B", "C", "D", "E", "F"}

UpperLetters ==
    <<"A", "B", "C", "D", "E", "F", "G", "H", "I", "J", "K", "L", "M",
      "N", "O", "P", "Q", "R", "S", "T", "U", "V", "W", "X", "Y", "Z">>

LowerLetters ==
    <<"a", "b", "c", "d", "e", "f", "g", "h", "i", "j", "k", "l", "m",
      "n", "o", "p", "q", "r", "s", "t", "u", "v", "w", "x", "y", "z">>

\* String.prototype.toLowerCase on one character
LowerChar(c) ==
    IF \E i \in 1..Len(UpperLetters) : UpperLetters[i] = c
    THEN LowerLetters[CHOOSE i \in 1..Len(UpperLetters) : UpperLetters[i] = c]
    ELSE c

toLowerCase(s) == [i \in 1..Len(s) |-> LowerChar(s[i])]

\* a string of n copies of the character c
Rep(c, n) == [i \in 1..n |-> c]

\* s.startsWith(p)
startsWith(s, p) == Len(s) >= Len(p) /\ SubSeq(s, 1, Len(p)) = p

\* s.substring(n): the characters after the first n
substring(s, n) == SubSeq(s, n + 1, Len(s))

\* s.slice(0, n)
slice0(s, n) == IF Len(s) <= n THEN s ELSE SubSeq(s, 1, n)

\* s.padStart(n, '0')
padStart(s, n) == IF Len(s) >= n THEN s ELSE Rep("0", n - Len(s)) \o s

\* the first index at which sep occurs in s, 0 when it does not
IndexOf(s, sep) ==
    LET hits == {i \in 1..(Len(s) - Len(sep) + 1) : SubSeq(s, i, i + Len(sep) - 1) = sep}
    IN  IF hits = {} THEN 0 ELSE CHOOSE i \in hits : \A j \in hits : i <= j

RECURSIVE split(_, _)
\* s.split(sep) for a non-empty separator: always at least one part
split(s, sep) ==
    LET i == IndexOf(s, sep)
    IN  IF i = 0 THEN <<s>>
        ELSE <<SubSeq(s, 1, i - 1)>> \o split(SubSeq(s, i + Len(sep), Len(s)), sep)

\* the white space trim() and \s strip (of what the bounded inputs hold)
WhiteSpace == {" ", "\t", "\n", "\r"}

RECURSIVE trimStart(_)
trimStart(s) == IF s # <<>> /\ Head(s) \in WhiteSpace THEN trimStart(Tail(s)) ELSE s

RECURSIVE trimEnd(_)
trimEnd(s) ==
    IF s # <<>> /\ s[Len(s)] \in WhiteSpace THEN trimEnd(SubSeq(s, 1, Len(s) - 1)) ELSE s

\* s.trim()
trim(s) == trimEnd(trimStart(s))

\* s.replace(/[^0-9a-f]/gi, '')
stripNonHex(s) == SelectSeq(s, LAMBDA c : c \in HexAny)

\* /^[0-9a-f]{n}$/.test(s)
IsLowerHex(s, n) == Len(s) = n /\ \A i \in 1..Len(s) : s[i] \in HexLower

RECURSIVE join(_, _)
\* parts.join(sep)
join(parts, sep) ==
    IF parts = <<>> THEN <<>>
    ELSE IF Len(parts) = 1 THEN parts[1]
    ELSE parts[1] \o sep \o join(Tail(parts), sep)

(***************************************************************************)
(* JavaScript values that reach the parsers: a header is a string when     *)
(* present and undefined when absent; a direct caller of a parser can hand *)
(* it anything.                                                            *)
(***************************************************************************)
Undefined == [k |-> "undef", s |-> <<>>]

Str(s) == [k |-> "str", s |-> s]

\* a number and a plain object, as a caller of parseTraceParent may pass
Num(s) == [k |-> "num", s |-> s]

Obj == [k |-> "obj", s |-> <<>>]

\* a function value: a callback
Fn == [k |-> "fn", s |-> <<>>]

\* null, booleans, arrays and objects with their entries in insertion order;
\* each kind of value is a record with fields of its own
Null == [k |-> "null", s |-> <<>>]

Bool(b) == [k |-> "bool", b |-> b]

Arr(items) == [k |-> "arr", items |-> items]

Entry(key, value) == [key |-> key, value |-> value]

Object(entries) == [k |-> "object", entries |-> entries]

\* the truthiness JavaScript's ! and || test
Truthy(v) ==
    CASE v.k = "undef" -> FALSE
      [] v.k = "null" -> FALSE
      [] v.k = "bool" -> v.b
      [] v.k = "str" -> v.s # <<>>
      [] v.k = "num" -> v.s # <<"0">>
      [] OTHER -> TRUE

(***************************************************************************)
(* Program constants of the id formats                                     *)
(***************************************************************************)
VersionLen == 2
TraceIdLen == 32
SpanIdLen == 16
FlagsLen == 2
TraceParentParts == 4
AwsRandomLen == 24
AwsTimeLen == 8
RequestIdLen == 8

(***************************************************************************)
(* crypto.randomBytes and Date.now: one draw per use. The pools hold       *)
(* well-formed hex strings of the drawn width; no string of a pool occurs  *)
(* in a header of the bounded input sets (a 64-bit draw that equals a      *)
(* value the client chose is outside the model).                           *)
(***************************************************************************)
NumDraws == 2

DrawChar == <<"1", "2", "3", "4">>

Random(n) == {Rep(DrawChar[i], n) : i \in 1..NumDraws}

Clock == {<<"6", "9", "3", "1", "3", "c", "e", "7">>}

\* new Date().toISOString() at the instant of Clock
ClockIso == <<"2", "0", "2", "5", "-", "1", "2", "-", "0", "4", "T", "0", "7", ":", "4", "8", ":", "5", "5", ".", "0", "0", "0", "Z">>

\* everything one request handling draws
Draws ==
    [r16 : Random(TraceIdLen), r8 : Random(SpanIdLen), r12 : Random(AwsRandomLen),
     rid : Random(RequestIdLen), now : Clock]

(***************************************************************************)
(* TraceContext (src/context/trace-context.js)                             *)
(***************************************************************************)
\* new TraceContext()
NewTraceContext ==
    [version |-> <<"0", "0">>, traceId |-> <<>>, spanId |-> <<>>,
     traceFlags |-> <<"0", "1">>, traceState |-> <<>>]

generateNew(awsFormat, rnd) ==
    [NewTraceContext EXCEPT
        !.traceId = IF awsFormat
                    THEN <<"1", "-">> \o padStart(rnd.now, AwsTimeLen) \o <<"-">> \o rnd.r12
                    ELSE rnd.r16,
        !.spanId = rnd.r8]

\* a faulty variant of parseTraceParent: the trace-id segment is not validated
parseTraceParentLax(header, rnd) ==
    IF ~Truthy(header) \/ header.k # "str" THEN generateNew(FALSE, rnd)
    ELSE LET parts == split(header.s, <<"-">>)
         IN  IF Len(parts) # TraceParentParts THEN generateNew(FALSE, rnd)
             ELSE IF \/ ~IsLowerHex(parts[1], VersionLen)
                     \/ ~IsLowerHex(parts[3], SpanIdLen)
                     \/ ~IsLowerHex(parts[4], FlagsLen)
                  THEN generateNew(FALSE, rnd)
                  ELSE [NewTraceContext EXCEPT
                           !.version = parts[1],
                           !.traceId = parts[2],
                           !.spanId = rnd.r8,
                           !.traceFlags = parts[4]]

\* a faulty variant of parseTraceParent: the caller's span id is kept
parseTraceParentKeepSpan(header, rnd) ==
    IF ~Truthy(header) \/ header.k # "str" THEN generateNew(FALSE, rnd)
    ELSE LET parts == split(header.s, <<"-">>)
         IN  IF Len(parts) # TraceParentParts THEN generateNew(FALSE, rnd)
             ELSE IF \/ ~IsLowerHex(parts[1], VersionLen)
                     \/ ~IsLowerHex(parts[2], TraceIdLen)
                     \/ ~IsLowerHex(parts[3], SpanIdLen)
                     \/ ~IsLowerHex(parts[4], FlagsLen)
                  THEN generateNew(FALSE, rnd)
                  ELSE [NewTraceContext EXCEPT
                           !.version = parts[1],
                           !.traceId = parts[2],
                           !.spanId = parts[3],
                           !.traceFlags = parts[4]]

parseTraceParent(header, rnd) ==
    IF ~Truthy(header) THEN generateNew(FALSE, rnd)
    ELSE IF header.k # "str" THEN generateNew(FALSE, rnd)   \* header.split throws, caught
    ELSE LET parts == split(header.s, <<"-">>)
         IN  IF Len(parts) # TraceParentParts THEN generateNew(FALSE, rnd)
             ELSE IF \/ ~IsLowerHex(parts[1], VersionLen)
                     \/ ~IsLowerHex(parts[2], TraceIdLen)
                     \/ ~IsLowerHex(parts[3], SpanIdLen)
                     \/ ~IsLowerHex(parts[4], FlagsLen)
                  THEN generateNew(FALSE, rnd)
                  ELSE [NewTraceContext EXCEPT
                           !.version = parts[1],
                           !.traceId = parts[2],
                           !.spanId = rnd.r8,
                           !.traceFlags = parts[4]]

parseCloudTrace(header, rnd) ==
    IF ~Truthy(header) THEN generateNew(FALSE, rnd)
    ELSE IF header.k # "str" THEN generateNew(FALSE, rnd)
    ELSE LET parts == split(header.s, <<";", "o", "=">>)
             traceSpan == parts[1]
             options == IF Len(parts) >= 2 THEN Str(parts[2]) ELSE Undefined
             traceId == split(traceSpan, <<"/">>)[1]
         IN  IF traceId = <<>> THEN generateNew(FALSE, rnd)
             ELSE [NewTraceContext EXCEPT
                      !.traceId = padStart(traceId, TraceIdLen),
                      !.spanId = rnd.r8,
                      !.traceFlags = IF options = Str(<<"0">>)
                                     THEN <<"0", "0">> ELSE <<"0", "1">>]

Quotes == {"\"", "'"}

\* header.replace(/^["']|["']$/g, '')
stripQuotes(s) ==
    LET a == IF s # <<>> /\ Head(s) \in Quotes THEN Tail(s) ELSE s
    IN  IF a # <<>> /\ a[Len(a)] \in Quotes THEN SubSeq(a, 1, Len(a) - 1) ELSE a

RootKey == <<"R", "o", "o", "t", "=">>
ParentKey == <<"P", "a", "r", "e", "n", "t", "=">>
SampledKey == <<"S", "a", "m", "p", "l", "e", "d", "=">>

RECURSIVE awsFields(_, _)
\* the for loop over the ;-separated parts: a later field overwrites an earlier one
awsFields(parts, acc) ==
    IF parts = <<>> THEN acc
    ELSE LET trimmed == trim(Head(parts))
             next == IF startsWith(trimmed, RootKey)
                        THEN [acc EXCEPT !.rootPart = substring(trimmed, Len(RootKey))]
                     ELSE IF startsWith(trimmed, ParentKey)
                        THEN [acc EXCEPT !.parentPart = substring(trimmed, Len(ParentKey))]
                     ELSE IF startsWith(trimmed, SampledKey)
                        THEN [acc EXCEPT !.sampled = substring(trimmed, Len(SampledKey))]
                     ELSE acc
         IN  awsFields(Tail(parts), next)

parseAwsTraceId(header, rnd) ==
    IF ~Truthy(header) THEN generateNew(FALSE, rnd)
    ELSE IF header.k # "str" THEN generateNew(FALSE, rnd)
    ELSE LET f == awsFields(split(stripQuotes(header.s), <<";">>),
                            [rootPart |-> <<>>, parentPart |-> <<>>, sampled |-> <<"1">>])
         IN  IF f.rootPart = <<>> THEN generateNew(FALSE, rnd)
             ELSE [NewTraceContext EXCEPT
                      !.traceId = f.rootPart,
                      !.spanId = IF f.parentPart # <<>>
                                 THEN toLowerCase(padStart(slice0(stripNonHex(f.parentPart),
                                                                  SpanIdLen), SpanIdLen))
                                 ELSE rnd.r8,
                      !.traceFlags = IF f.sampled = <<"0">>
                                     THEN <<"0", "0">> ELSE <<"0", "1">>]

\* Map.prototype.set on the insertion-ordered traceState
mapSet(m, key, value) ==
    IF \E i \in 1..Len(m) : m[i][1] = key
    THEN [i \in 1..Len(m) |-> IF m[i][1] = key THEN <<key, value>> ELSE m[i]]
    ELSE Append(m, <<key, value>>)

RECURSIVE traceStatePairs(_, _)
\* the for loop of parseTraceState over the ,-separated pairs
traceStatePairs(pairs, m) ==
    IF pairs = <<>> THEN m
    ELSE LET kv == split(trim(Head(pairs)), <<"=">>)
             key == kv[1]
             value == IF Len(kv) >= 2 THEN kv[2] ELSE <<>>
         IN  traceStatePairs(Tail(pairs),
                             IF key # <<>> /\ value # <<>> THEN mapSet(m, key, value) ELSE m)

\* traceContext.parseTraceState(header): the context with its traceState updated
parseTraceState(tc, header) ==
    IF ~Truthy(header) \/ header.k # "str" THEN tc
    ELSE [tc EXCEPT !.traceState = traceStatePairs(split(header.s, <<",">>), tc.traceState)]

toTraceParent(tc) ==
    tc.version \o <<"-">> \o tc.traceId \o <<"-">> \o tc.spanId \o <<"-">> \o tc.traceFlags

toTraceState(tc) ==
    join([i \in 1..Len(tc.traceState) |->
             tc.traceState[i][1] \o <<"=">> \o tc.traceState[i][2]], <<",">>)

toCloudTrace(tc) ==
    tc.traceId \o <<"/">> \o tc.spanId \o <<";", "o", "=">>
        \o (IF tc.traceFlags = <<"0", "1">> THEN <<"1">> ELSE <<"0">>)

(***************************************************************************)
(* RequestContext (src/context/index.js)                                   *)
(***************************************************************************)
\* new RequestContext(): what RequestContext.get() returns outside a scope
NewRequestContext == [requestId |-> <<>>, traceContext |-> [k |-> "null"], metadata |-> <<>>]

\* the traceId / spanId getters: this.traceContext?.traceId || ''
traceIdOf(ctx) == IF ctx.traceContext.k = "null" THEN <<>> ELSE ctx.traceContext.tc.traceId

spanIdOf(ctx) == IF ctx.traceContext.k = "null" THEN <<>> ELSE ctx.traceContext.tc.spanId

\* a faulty variant of traceSource: traceparent is looked at before
\* x-cloud-trace-context
traceSourceW3CFirst(headers, logType) ==
    IF logType = "aws"
    THEN IF Truthy(headers.amzn) THEN "x-amzn-trace-id" ELSE "new-aws"
    ELSE IF Truthy(headers.traceparent) THEN "traceparent"
    ELSE IF Truthy(headers.cloud) THEN "x-cloud-trace-context"
    ELSE "new"

\* which branch of RequestContext.create supplies the trace context
traceSource(headers, logType) ==
    IF logType = "aws"
    THEN IF Truthy(headers.amzn) THEN "x-amzn-trace-id" ELSE "new-aws"
    ELSE IF Truthy(headers.cloud) THEN "x-cloud-trace-context"
    ELSE IF Truthy(headers.traceparent) THEN "traceparent"
    ELSE "new"

create(headers, logType, rnd) ==
    LET requestId == IF Truthy(headers.xRequestId) THEN headers.xRequestId.s
                     ELSE slice0(rnd.rid, RequestIdLen)
        src == traceSource(headers, logType)
        traceContext ==
            CASE src = "x-amzn-trace-id" -> parseAwsTraceId(headers.amzn, rnd)
              [] src = "new-aws" -> generateNew(TRUE, rnd)
              [] src = "x-cloud-trace-context" -> parseCloudTrace(headers.cloud, rnd)
              [] src = "traceparent" -> parseTraceParent(headers.traceparent, rnd)
              [] OTHER -> generateNew(FALSE, rnd)
    IN  [requestId |-> requestId,
         traceContext |-> [k |-> "tc", tc |-> parseTraceState(traceContext, headers.tracestate)],
         metadata |-> <<>>]

(***************************************************************************)
(* Path exclusion (src/config/constants.js)                                *)
(***************************************************************************)
EXCLUDED_PATHS ==
    << <<"/", "h", "e", "a", "l", "t", "h">>,
       <<"/", "m", "e", "t", "r", "i", "c", "s">>,
       <<"/", "*", "/", "h", "e", "a", "l", "t", "h">>,
       <<"/", "*", "/", "m", "e", "t", "r", "i", "c", "s">> >>

\* new RegExp('^' + pattern.replace('*', '[^/]+') + '$').test(path), for a pattern
\* whose other characters are literal
matchesStar(path, pattern) ==
    LET i == IndexOf(pattern, <<"*">>)
        pre == SubSeq(pattern, 1, i - 1)
        suf == SubSeq(pattern, i + 1, Len(pattern))
        mid == SubSeq(path, Len(pre) + 1, Len(path) - Len(suf))
    IN  /\ Len(path) > Len(pre) + Len(suf)
        /\ startsWith(path, pre)
        /\ SubSeq(path, Len(path) - Len(suf) + 1, Len(path)) = suf
        /\ \A j \in 1..Len(mid) : mid[j] # "/"

\* a faulty variant of shouldExcludePath: every pattern is compared literally
shouldExcludeLiteral(path, customExclusions) ==
    \E n \in 1..Len(EXCLUDED_PATHS \o customExclusions) :
        path = (EXCLUDED_PATHS \o customExclusions)[n]

\* shouldExcludePath(path, customExclusions)
shouldExcludePath(path, customExclusions) ==
    LET pathsToCheck == EXCLUDED_PATHS \o customExclusions
    IN  \E n \in 1..Len(pathsToCheck) :
            IF IndexOf(pathsToCheck[n], <<"*">>) # 0
            THEN matchesStar(path, pathsToCheck[n])
            ELSE path = pathsToCheck[n]

(***************************************************************************)
(* Rendering of a log record (src/utils/formatters.js,                     *)
(* src/utils/aws-formatter.js): the identifier fields                      *)
(***************************************************************************)
\* PROJECT_ID as configured
PROJECT_ID == <<"p", "1">>

\* /^1-[0-9a-f]{8}-[0-9a-f]{24}$/i.test(traceId)
IsXRayShape(s) ==
    /\ Len(s) = 2 + AwsTimeLen + 1 + AwsRandomLen
    /\ s[1] = "1" /\ s[2] = "-" /\ s[2 + AwsTimeLen + 1] = "-"
    /\ \A i \in 3..(2 + AwsTimeLen) : s[i] \in HexAny
    /\ \A i \in (2 + AwsTimeLen + 2)..Len(s) : s[i] \in HexAny

\* traceId.replace('Root=', ''): the first occurrence removed
removeRootKey(s) ==
    LET i == IndexOf(s, RootKey)
    IN  IF i = 0 THEN s ELSE SubSeq(s, 1, i - 1) \o SubSeq(s, i + Len(RootKey), Len(s))

\* convertToAwsXRayTraceId(traceId, timestamp) for a non-empty string traceId;
\* now is the hex of the epoch seconds of the record's timestamp
convertToAwsXRayTraceId(traceId, now) ==
    IF IsXRayShape(traceId) THEN traceId
    ELSE IF startsWith(traceId, RootKey) THEN removeRootKey(traceId)
    ELSE <<"1", "-">> \o toLowerCase(padStart(now, AwsTimeLen)) \o <<"-">>
            \o toLowerCase(padStart(slice0(stripNonHex(traceId), AwsRandomLen), AwsRandomLen))

\* the span id as formatAwsLog and generateXAmznTraceId normalise it
awsSpanId(spanId) == toLowerCase(padStart(slice0(stripNonHex(spanId), SpanIdLen), SpanIdLen))

TracePrefix(projectId) ==
    <<"p", "r", "o", "j", "e", "c", "t", "s", "/">> \o projectId
        \o <<"/", "t", "r", "a", "c", "e", "s", "/">>

\* formatJsonLog(log): log carries type, requestId, traceId, spanId as strings;
\* trace, traceSpanId and labelRequestId are the record's
\* 'logging.googleapis.com/trace', 'logging.googleapis.com/spanId' and
\* 'logging.googleapis.com/labels'.requestId
formatJsonLog(log, logType, now) ==
    IF logType = "aws"
    THEN [type |-> log.type,
          requestId |-> IF log.requestId # <<>> THEN Str(log.requestId) ELSE Undefined,
          traceId |-> IF log.traceId # <<>>
                      THEN Str(convertToAwsXRayTraceId(log.traceId, now)) ELSE Undefined,
          spanId |-> IF log.spanId # <<>> THEN Str(awsSpanId(log.spanId)) ELSE Undefined,
          trace |-> Undefined,
          traceSpanId |-> Undefined,
          labelRequestId |-> Undefined]
    ELSE [type |-> log.type,
          requestId |-> Undefined,
          traceId |-> Undefined,
          spanId |-> Undefined,
          trace |-> IF log.traceId # <<>>
                    THEN IF PROJECT_ID # <<>>
                         THEN Str(TracePrefix(PROJECT_ID) \o log.traceId)
                         ELSE Str(log.traceId)
                    ELSE Undefined,
          traceSpanId |-> IF log.traceId # <<>> THEN Str(log.spanId) ELSE Undefined,
          labelRequestId |-> Str(log.requestId)]

(***************************************************************************)
(* Character classes and the PATTERNS of src/utils/sanitizers.js           *)
(***************************************************************************)
Letters ==
    {UpperLetters[i] : i \in 1..Len(UpperLetters)}
        \cup {LowerLetters[i] : i \in 1..Len(LowerLetters)}

\* \w
WordChars == Letters \cup Digits \cup {"_"}

\* [A-Za-z0-9+/]
Base64Chars == Letters \cup Digits \cup {"+", "/"}

\* s.includes(sub)
includes(s, sub) == IndexOf(s, sub) # 0

\* every character of s[a..b] is in the class
AllIn(s, a, b, class) == \A i \in a..b : s[i] \in class

\* \b between s[p] and s[p + 1]
boundary(s, p) ==
    (p \in 1..Len(s) /\ s[p] \in WordChars)
        # (p + 1 \in 1..Len(s) /\ s[p + 1] \in WordChars)

\* \d{n} at index i
digitsAt(s, i, n) == i + n - 1 <= Len(s) /\ AllIn(s, i, i + n - 1, Digits)

\* the indices at which the match goes on after an optional separator at i
afterOptional(s, i, seps) == {i} \cup (IF i <= Len(s) /\ s[i] \in seps THEN {i + 1} ELSE {})

\* /^data:image\/[^;]+;base64,[^"'\s)]+$/
BASE64_IMAGE(s) ==
    LET prefix == <<"d", "a", "t", "a", ":", "i", "m", "a", "g", "e", "/">>
        rest == substring(s, Len(prefix))
        semi == IndexOf(rest, <<";">>)
        marker == <<";", "b", "a", "s", "e", "6", "4", ",">>
        data == substring(rest, semi - 1 + Len(marker))
    IN  /\ startsWith(s, prefix)
        /\ semi >= 2
        /\ startsWith(substring(rest, semi - 1), marker)
        /\ data # <<>>
        /\ \A i \in 1..Len(data) : data[i] \notin ({"\"", "'", ")"} \cup WhiteSpace)

\* /^(?:[A-Za-z0-9+/]{4}){10,}(?:[A-Za-z0-9+/]{2}==|[A-Za-z0-9+/]{3}=)?$/
BASE64_GENERIC(s) ==
    LET n == Len(s)
    IN  /\ n % 4 = 0
        /\ \/ n >= 40 /\ AllIn(s, 1, n, Base64Chars)
           \/ /\ n >= 44
              /\ AllIn(s, 1, n - 2, Base64Chars)
              /\ s[n] = "="
              /\ s[n - 1] \in Base64Chars \cup {"="}

ImageExtensions ==
    {<<"j", "p", "g">>, <<"j", "p", "e", "g">>, <<"p", "n", "g">>, <<"g", "i", "f">>, <<"s", "v", "g">>, <<"w", "e", "b", "p">>, <<"b", "m", "p">>, <<"i", "c", "o">>}

\* /\.(jpe?g|png|gif|svg|webp|bmp|ico)($|\?)/i
IMAGE_URL(s) ==
    \E i \in 1..Len(s) :
        /\ s[i] = "."
        /\ \E ext \in ImageExtensions :
             /\ startsWith(toLowerCase(substring(s, i)), ext)
             /\ \/ i + Len(ext) = Len(s)
                \/ s[i + Len(ext) + 1] = "?"

\* /\b\d{4}[- ]?\d{4}[- ]?\d{4}[- ]?\d{4}\b/
CREDIT_CARD(s) ==
    \E i \in 1..Len(s) :
        /\ digitsAt(s, i, 4)
        /\ boundary(s, i - 1)
        /\ \E j \in afterOptional(s, i + 4, {"-", " "}) :
             /\ digitsAt(s, j, 4)
             /\ \E m \in afterOptional(s, j + 4, {"-", " "}) :
                  /\ digitsAt(s, m, 4)
                  /\ \E n \in afterOptional(s, m + 4, {"-", " "}) :
                       digitsAt(s, n, 4) /\ boundary(s, n + 3)

\* /\b\d{3}[-]?\d{2}[-]?\d{4}\b/
SSN(s) ==
    \E i \in 1..Len(s) :
        /\ digitsAt(s, i, 3)
        /\ boundary(s, i - 1)
        /\ \E j \in afterOptional(s, i + 3, {"-"}) :
             /\ digitsAt(s, j, 2)
             /\ \E m \in afterOptional(s, j + 2, {"-"}) :
                  digitsAt(s, m, 4) /\ boundary(s, m + 3)

\* /\b[A-Za-z0-9._%+-]+@[A-Za-z0-9.-]+\.[A-Z|a-z]{2,}\b/
EMAIL(s) ==
    \E at \in {i \in 1..Len(s) : s[i] = "@"} :
        /\ \E a \in 1..(at - 1) :
             /\ AllIn(s, a, at - 1, Letters \cup Digits \cup {".", "_", "%", "+", "-"})
             /\ boundary(s, a - 1)
        /\ \E d \in (at + 2)..Len(s) :
             /\ s[d] = "."
             /\ AllIn(s, at + 1, d - 1, Letters \cup Digits \cup {".", "-"})
             /\ \E e \in (d + 2)..Len(s) :
                  AllIn(s, d + 1, e, Letters \cup {"|"}) /\ boundary(s, e)

(***************************************************************************)
(* Sanitizers (src/utils/sanitizers.js)                                    *)
(***************************************************************************)
\* CONTENT_LIMITS.JSON_DEPTH, CONTENT_LIMITS.ARRAY_LENGTH
JSON_DEPTH == 10
ARRAY_LENGTH == 100

\* the length above which no regular expression is tested
MAX_REGEX_TEST_SIZE == 10000

\* the length a string must exceed for the patterns to be tested
PATTERN_MIN_LENGTH == 100

\* value.length / 1024
KB == 1024

\* DEFAULT_SENSITIVE_FIELDS
DEFAULT_SENSITIVE_FIELDS ==
    {<<"p", "a", "s", "s", "w", "o", "r", "d">>, <<"t", "o", "k", "e", "n">>, <<"a", "u", "t", "h", "o", "r", "i", "z", "a", "t", "i", "o", "n">>, <<"k", "e", "y">>, <<"s", "e", "c", "r", "e", "t">>, <<"c", "r", "e", "d", "e", "n", "t", "i", "a", "l">>,
     <<"c", "r", "e", "d", "i", "t", "c", "a", "r", "d">>, <<"c", "r", "e", "d", "i", "t", "_", "c", "a", "r", "d">>, <<"c", "a", "r", "d", "n", "u", "m", "b", "e", "r">>, <<"a", "p", "i", "k", "e", "y">>, <<"p", "h", "o", "n", "e">>, <<"e", "m", "a", "i", "l">>,
     <<"d", "o", "b">>, <<"b", "i", "r", "t", "h">>, <<"s", "o", "c", "i", "a", "l">>}

\* getSensitiveFields(): envFields is LOGGER_SENSITIVE_FIELDS split at the
\* commas, <<>> when the variable is not set
getSensitiveFields(envFields) ==
    DEFAULT_SENSITIVE_FIELDS \cup {toLowerCase(trim(envFields[i])) : i \in 1..Len(envFields)}

REDACTED == <<"[", "R", "E", "D", "A", "C", "T", "E", "D", "]">>
MAX_DEPTH_EXCEEDED == <<"[", "M", "A", "X", " ", "D", "E", "P", "T", "H", " ", "E", "X", "C", "E", "E", "D", "E", "D", "]">>
BASE64_REDACTED == <<"[", "B", "A", "S", "E", "6", "4", " ", "R", "E", "D", "A", "C", "T", "E", "D", "]">>
IMAGE_URL_REDACTED == <<"[", "I", "M", "A", "G", "E", " ", "U", "R", "L", " ", "R", "E", "D", "A", "C", "T", "E", "D", "]">>
IMAGE_DATA_REDACTED == <<"[", "I", "M", "A", "G", "E", " ", "D", "A", "T", "A", " ", "R", "E", "D", "A", "C", "T", "E", "D", "]">>
BASE64_DATA_REDACTED == <<"[", "B", "A", "S", "E", "6", "4", " ", "D", "A", "T", "A", " ", "R", "E", "D", "A", "C", "T", "E", "D", "]">>
CREDIT_CARD_REDACTED == <<"[", "C", "R", "E", "D", "I", "T", " ", "C", "A", "R", "D", " ", "R", "E", "D", "A", "C", "T", "E", "D", "]">>
SSN_REDACTED == <<"[", "S", "S", "N", " ", "R", "E", "D", "A", "C", "T", "E", "D", "]">>
EMAIL_REDACTED == <<"[", "E", "M", "A", "I", "L", " ", "R", "E", "D", "A", "C", "T", "E", "D", "]">>

DigitChars == <<"0", "1", "2", "3", "4", "5", "6", "7", "8", "9">>

RECURSIVE decimal(_)
\* String(n) for a natural number
decimal(n) == IF n < 10 THEN <<DigitChars[n + 1]>> ELSE decimal(n \div 10) \o <<DigitChars[(n % 10) + 1]>>

\* (length / 1024).toFixed(0): the nearest integer, a tie going up
toFixed0(length) == decimal((2 * length + KB) \div (2 * KB))

\* `[LARGE ${what} - ${(value.length / 1024).toFixed(0)}KB]`
large(what, length) == <<"[", "L", "A", "R", "G", "E", " ">> \o what \o <<" ", "-", " ">> \o toFixed0(length) \o <<"K", "B", "]">>

\* what sanitizeImageData(value) computes when memoizedChecks does not hold
\* the value; sanitizeImageDataMemo is the call with the map
sanitizeImageData(value) ==
    IF value.k # "str" THEN value
    ELSE IF Len(value.s) > MAX_REGEX_TEST_SIZE
    THEN Str(large(<<"B", "A", "S", "E", "6", "4", " ", "D", "A", "T", "A">>, Len(value.s)))
    ELSE IF Len(value.s) > PATTERN_MIN_LENGTH
    THEN IF BASE64_IMAGE(value.s) \/ BASE64_GENERIC(value.s) THEN Str(BASE64_REDACTED)
         ELSE IF IMAGE_URL(value.s) THEN Str(IMAGE_URL_REDACTED)
         ELSE value
    ELSE value

\* a sanitizeValue that masks a sensitive string instead of replacing it
sanitizeValueMasking(key, value, sensitiveFields) ==
    IF toLowerCase(key) \in sensitiveFields
    THEN IF value.k = "str" THEN Str(<<"*">> \o value.s) ELSE Str(REDACTED)
    ELSE sanitizeImageData(value)

\* a sanitizeValue that looks at the value before it looks at the key
sanitizeValueShapeFirst(key, value, sensitiveFields) ==
    IF ~Truthy(value) \/ value.k # "str" THEN value
    ELSE IF toLowerCase(key) \in sensitiveFields THEN Str(REDACTED)
    ELSE sanitizeImageData(value)

\* the body of sanitizeValue, imageData being what the call of
\* sanitizeImageData(value) on its last line returns
sanitizeValueWith(imageData, key, value, sensitiveFields) ==
    LET keyLower == toLowerCase(key)
        isImage == includes(keyLower, <<"i", "m", "a", "g", "e">>)
        dataImage == value.k = "str" /\ startsWith(value.s, <<"d", "a", "t", "a", ":", "i", "m", "a", "g", "e", "/">>)
    IN  IF keyLower \in sensitiveFields THEN Str(REDACTED)
        ELSE IF ~Truthy(value) \/ value.k # "str" THEN value
        ELSE IF Len(value.s) > MAX_REGEX_TEST_SIZE
        THEN IF \/ isImage
                \/ includes(keyLower, <<"a", "t", "t", "a", "c", "h", "m", "e", "n", "t">>)
                \/ includes(keyLower, <<"c", "o", "n", "t", "e", "n", "t">>)
                \/ dataImage
             THEN Str(large(IF isImage THEN <<"I", "M", "A", "G", "E", " ", "D", "A", "T", "A">> ELSE <<"B", "A", "S", "E", "6", "4", " ", "D", "A", "T", "A">>, Len(value.s)))
             ELSE Str(large(<<"S", "T", "R", "I", "N", "G">>, Len(value.s)))
        ELSE IF Len(value.s) > PATTERN_MIN_LENGTH /\ (isImage \/ dataImage)
        THEN Str(IMAGE_DATA_REDACTED)
        ELSE IF Len(value.s) > PATTERN_MIN_LENGTH /\ BASE64_GENERIC(value.s)
        THEN Str(BASE64_DATA_REDACTED)
        ELSE IF Len(value.s) > PATTERN_MIN_LENGTH /\ CREDIT_CARD(value.s)
        THEN Str(CREDIT_CARD_REDACTED)
        ELSE IF Len(value.s) > PATTERN_MIN_LENGTH /\ SSN(value.s)
        THEN Str(SSN_REDACTED)
        ELSE IF Len(value.s) > PATTERN_MIN_LENGTH /\ EMAIL(value.s)
        THEN Str(EMAIL_REDACTED)
        ELSE imageData

\* sanitizeValue(key, value, sensitiveFields)
sanitizeValue(key, value, sensitiveFields) ==
    sanitizeValueWith(sanitizeImageData(value), key, value, sensitiveFields)

\* the size below which memoizedChecks takes a new entry
MEMO_LIMIT == 1000

\* memoizedChecks.get(value)
memoGet(cache, value) ==
    IF \E e \in cache : e.key = value.s
    THEN (CHOOSE e \in cache : e.key = value.s).result
    ELSE Undefined

\* a faulty variant of memoSet: the size of the map is not looked at
memoSetUnlimited(cache, value, result) ==
    {e \in cache : e.key # value.s} \cup {[key |-> value.s, result |-> result]}

\* if (memoizedChecks.size < 1000) memoizedChecks.set(value, result)
memoSet(cache, value, result) ==
    IF Cardinality(cache) < MEMO_LIMIT
    THEN {e \in cache : e.key # value.s} \cup {[key |-> value.s, result |-> result]}
    ELSE cache

\* sanitizeImageData(value) with memoizedChecks as it is before and after the call
sanitizeImageDataMemo(cache, value) ==
    IF value.k # "str" THEN [result |-> value, cache |-> cache]
    ELSE IF Len(value.s) > MAX_REGEX_TEST_SIZE
    THEN [result |-> sanitizeImageData(value), cache |-> cache]
    ELSE LET cached == memoGet(cache, value)
         IN  IF Truthy(cached) THEN [result |-> cached, cache |-> cache]
             ELSE LET result == sanitizeImageData(value)
                  IN  [result |-> result, cache |-> memoSet(cache, value, result)]

\* what sanitizeValueWith returns when the call gets to its last line
LastLine == [k |-> "last line"]

\* sanitizeValue(key, value, sensitiveFields) with memoizedChecks before and after
sanitizeValueMemo(cache, key, value, sensitiveFields) ==
    LET early == sanitizeValueWith(LastLine, key, value, sensitiveFields)
    IN  IF early = LastLine THEN sanitizeImageDataMemo(cache, value)
        ELSE [result |-> early, cache |-> cache]

RECURSIVE sanitizeEach(_, _, _, _, _)
\* sanitizeValue for values[lo], ..., values[hi] one after the other
sanitizeEach(cache, key, values, lo, hi) ==
    IF lo > hi THEN [results |-> <<>>, cache |-> cache]
    ELSE IF lo = hi
    THEN LET call == sanitizeValueMemo(cache, key, values[lo], getSensitiveFields(<<>>))
         IN  [results |-> <<call.result>>, cache |-> call.cache]
    ELSE LET mid == (lo + hi) \div 2
             first == sanitizeEach(cache, key, values, lo, mid)
             rest == sanitizeEach(first.cache, key, values, mid + 1, hi)
         IN  [results |-> first.results \o rest.results, cache |-> rest.cache]

(***************************************************************************)
(* JSON.parse: a recursive-descent reading of the JSON grammar. A numeral  *)
(* is kept as it is written and a string escape \u is not read (the bodies *)
(* of the bounded inputs hold neither exponents nor \u escapes).           *)
(***************************************************************************)
\* a parse that failed; one that succeeded holds the value and the next index
Failed == [ok |-> FALSE, v |-> Null, i |-> 0]

Parsed(v, i) == [ok |-> TRUE, v |-> v, i |-> i]

RECURSIVE skipSpace(_, _)
\* the first index from i on that holds no white space
skipSpace(s, i) == IF i <= Len(s) /\ s[i] \in WhiteSpace THEN skipSpace(s, i + 1) ELSE i

RECURSIVE skipDigits(_, _)
skipDigits(s, i) == IF i <= Len(s) /\ s[i] \in Digits THEN skipDigits(s, i + 1) ELSE i

\* the character an escape sequence \c stands for; <<>> when there is none
unescape(c) ==
    CASE c = "\"" -> <<"\"">> [] c = "\\" -> <<"\\">> [] c = "/" -> <<"/">>
      [] c = "n" -> <<"\n">> [] c = "t" -> <<"\t">> [] c = "r" -> <<"\r">>
      [] OTHER -> <<>>

\* the first index from i on that holds a character of the class, else Len(s) + 1
firstOf(s, i, class) ==
    LET hits == {j \in i..Len(s) : s[j] \in class}
    IN  IF hits = {} THEN Len(s) + 1 ELSE CHOOSE j \in hits : \A h \in hits : j <= h

RECURSIVE parseChars(_, _, _)
\* the characters of a string literal from i to its closing quote, read up to
\* the next quote, backslash or control character at a time
parseChars(s, i, acc) ==
    LET j == firstOf(s, i, {"\"", "\\", "\n", "\t", "\r"})
        run == acc \o SubSeq(s, i, j - 1)
    IN  IF j > Len(s) \/ s[j] \in {"\n", "\t", "\r"} THEN Failed
        ELSE IF s[j] = "\"" THEN Parsed(run, j + 1)
        ELSE IF j + 1 > Len(s) \/ unescape(s[j + 1]) = <<>> THEN Failed
        ELSE parseChars(s, j + 2, run \o unescape(s[j + 1]))

\* a numeral at i: -? (0 | [1-9][0-9]*) (. [0-9]+)?
parseNumber(s, i) ==
    LET d == IF s[i] = "-" THEN i + 1 ELSE i
        e == skipDigits(s, d)
        f == IF e <= Len(s) /\ s[e] = "." THEN skipDigits(s, e + 1) ELSE e
    IN  IF e = d \/ (s[d] = "0" /\ e > d + 1) \/ (f > e /\ f = e + 1) THEN Failed
        ELSE Parsed(Num(SubSeq(s, i, f - 1)), f)

\* acc[key] = value: a key that is there keeps its place
put(entries, key, value) ==
    IF \E n \in 1..Len(entries) : entries[n].key = key
    THEN [n \in 1..Len(entries) |->
             IF entries[n].key = key THEN Entry(key, value) ELSE entries[n]]
    ELSE Append(entries, Entry(key, value))

RECURSIVE parseValue(_, _)
RECURSIVE parseElements(_, _, _)
RECURSIVE parseMembers(_, _, _)

\* the elements of an array after the first, i at "," or "]"
parseElements(s, i0, acc) ==
    LET i == skipSpace(s, i0)
        item == parseValue(s, i + 1)
    IN  IF i > Len(s) THEN Failed
        ELSE IF s[i] = "]" THEN Parsed(Arr(acc), i + 1)
        ELSE IF s[i] # "," \/ ~item.ok THEN Failed
        ELSE parseElements(s, item.i, Append(acc, item.v))

\* the members of an object, i at the opening quote of the next key
parseMembers(s, i0, acc) ==
    LET i == skipSpace(s, i0)
        key == parseChars(s, i + 1, <<>>)
        colon == skipSpace(s, key.i)
        value == parseValue(s, colon + 1)
        next == skipSpace(s, value.i)
    IN  IF i > Len(s) \/ s[i] # "\"" \/ ~key.ok THEN Failed
        ELSE IF colon > Len(s) \/ s[colon] # ":" \/ ~value.ok THEN Failed
        ELSE IF next > Len(s) THEN Failed
        ELSE IF s[next] = "}" THEN Parsed(Object(put(acc, key.v, value.v)), next + 1)
        ELSE IF s[next] = "," THEN parseMembers(s, next + 1, put(acc, key.v, value.v))
        ELSE Failed

\* the JSON value that starts at the first non-space index from i0 on
parseValue(s, i0) ==
    LET i == skipSpace(s, i0)
        rest == substring(s, i - 1)
        first == parseValue(s, i + 1)
        chars == parseChars(s, i + 1, <<>>)
    IN  IF i > Len(s) THEN Failed
        ELSE IF s[i] = "{"
        THEN IF skipSpace(s, i + 1) <= Len(s) /\ s[skipSpace(s, i + 1)] = "}"
             THEN Parsed(Object(<<>>), skipSpace(s, i + 1) + 1)
             ELSE parseMembers(s, i + 1, <<>>)
        ELSE IF s[i] = "["
        THEN IF skipSpace(s, i + 1) <= Len(s) /\ s[skipSpace(s, i + 1)] = "]"
             THEN Parsed(Arr(<<>>), skipSpace(s, i + 1) + 1)
             ELSE IF first.ok THEN parseElements(s, first.i, <<first.v>>) ELSE Failed
        ELSE IF s[i] = "\"" THEN IF chars.ok THEN Parsed(Str(chars.v), chars.i) ELSE Failed
        ELSE IF startsWith(rest, <<"t", "r", "u", "e">>) THEN Parsed(Bool(TRUE), i + 4)
        ELSE IF startsWith(rest, <<"f", "a", "l", "s", "e">>) THEN Parsed(Bool(FALSE), i + 5)
        ELSE IF startsWith(rest, <<"n", "u", "l", "l">>) THEN Parsed(Null, i + 4)
        ELSE IF s[i] \in Digits \cup {"-"} THEN parseNumber(s, i)
        ELSE Failed

\* JSON.parse(text): the value, or a failure where JSON.parse throws
JSONparse(text) ==
    LET value == parseValue(text, 1)
    IN  IF value.ok /\ skipSpace(text, value.i) = Len(text) + 1 THEN value ELSE Failed

\* a tryParseJson that never parses: the string goes through as opaque text
tryParseJsonNever(str) == Null

\* tryParseJson(str): null when str is no string or no JSON text
tryParseJson(str) ==
    IF str.k # "str" THEN Null
    ELSE LET trimmed == trim(str.s)
         IN  IF ~startsWith(trimmed, <<"{">>) /\ ~startsWith(trimmed, <<"[">>) THEN Null
             ELSE IF JSONparse(trimmed).ok THEN JSONparse(trimmed).v ELSE Null

(***************************************************************************)
(* Objects are references: a value Ref(n) is the object Graph[n], so that  *)
(* a structure can contain itself.                                         *)
(***************************************************************************)
Ref(n) == [k |-> "ref", n |-> n]

\* one object that holds itself and one pair of objects that hold each other
Graph ==
    << Object(<<Entry(<<"n", "a", "m", "e">>, Str(<<"l", "o", "o", "p">>)), Entry(<<"p", "a", "s", "s", "w", "o", "r", "d">>, Str(<<"p", "w">>)),
                Entry(<<"s", "e", "l", "f">>, Ref(1))>>),
       Object(<<Entry(<<"p", "e", "e", "r">>, Ref(3))>>),
       Arr(<<Ref(2), Str(<<"x">>)>>) >>

deref(v) == IF v.k = "ref" THEN Graph[v.n] ELSE v

\* typeof value === 'object'
typeofObject(v) == v.k \in {"null", "arr", "object", "obj", "ref"}

Min(a, b) == IF a <= b THEN a ELSE b

\* a depth guard that lets one more level through
depthExceededLate(depth) == depth > JSON_DEPTH

\* depth >= CONTENT_LIMITS.JSON_DEPTH
depthExceeded(depth) == depth >= JSON_DEPTH

\* an array passed on whole
sliceAll(items) == items

\* obj.slice(0, CONTENT_LIMITS.ARRAY_LENGTH)
sliceArray(items) == SubSeq(items, 1, Min(Len(items), ARRAY_LENGTH))

RECURSIVE sanitizeBody(_, _, _)
\* sanitizeBody(obj, sensitiveFields, depth)
sanitizeBody(ref, sensitiveFields, depth) ==
    LET obj == deref(ref)
        parsed == tryParseJson(obj)
        entries == IF obj.k = "object" THEN obj.entries ELSE <<>>
    IN  IF obj.k = "str"
        THEN IF parsed # Null THEN sanitizeBody(parsed, sensitiveFields, depth) ELSE obj
        ELSE IF ~Truthy(obj) \/ ~typeofObject(obj) THEN obj
        ELSE IF depthExceeded(depth) THEN Str(MAX_DEPTH_EXCEEDED)
        ELSE IF obj.k = "arr"
        THEN Arr([n \in 1..Len(sliceArray(obj.items)) |->
                     sanitizeBody(sliceArray(obj.items)[n], sensitiveFields, depth + 1)])
        ELSE Object([n \in 1..Len(entries) |->
                 Entry(entries[n].key,
                       sanitizeValue(entries[n].key,
                                     IF typeofObject(entries[n].value)
                                     THEN sanitizeBody(entries[n].value, sensitiveFields, depth + 1)
                                     ELSE entries[n].value,
                                     sensitiveFields))])

(***************************************************************************)
(* Dates: new Date(timestamp).getTime() for the timestamps of the bounded  *)
(* inputs: an ISO-8601 UTC string, a number of milliseconds, or a string   *)
(* that is no date                                                         *)
(***************************************************************************)
RECURSIVE number(_)
\* the number a string of digits writes
number(s) ==
    IF s = <<>> THEN 0
    ELSE 10 * number(SubSeq(s, 1, Len(s) - 1))
             + (CHOOSE n \in 0..9 : DigitChars[n + 1] = s[Len(s)])

\* YYYY-MM-DDTHH:MM:SS.mmmZ, the format of Date.prototype.toISOString
isIsoString(s) ==
    /\ Len(s) = 24
    /\ \A i \in 1..24 :
         CASE i \in {5, 8} -> s[i] = "-"
           [] i = 11 -> s[i] = "T"
           [] i \in {14, 17} -> s[i] = ":"
           [] i = 20 -> s[i] = "."
           [] i = 24 -> s[i] = "Z"
           [] OTHER -> s[i] \in Digits
    /\ number(SubSeq(s, 6, 7)) \in 1..12
    /\ number(SubSeq(s, 9, 10)) \in 1..31
    /\ number(SubSeq(s, 12, 13)) \in 0..23
    /\ number(SubSeq(s, 15, 16)) \in 0..59
    /\ number(SubSeq(s, 18, 19)) \in 0..59

\* the days from 1970-01-01 to the day d of month m of year y
daysFromEpoch(y, m, d) ==
    LET yy == IF m <= 2 THEN y - 1 ELSE y
        era == yy \div 400
        yoe == yy - era * 400
        doy == (153 * (IF m > 2 THEN m - 3 ELSE m + 9) + 2) \div 5 + d - 1
        doe == yoe * 365 + yoe \div 4 - yoe \div 100 + doy
    IN  era * 146097 + doe - 719468

NaN == [nan |-> TRUE, n |-> 0]

\* Math.floor(new Date(timestamp).getTime() / 1000)
epochSeconds(timestamp) ==
    IF timestamp.k = "num"
    THEN [nan |-> FALSE,
          n |-> IF Len(timestamp.s) <= 3 THEN 0
                ELSE number(SubSeq(timestamp.s, 1, Len(timestamp.s) - 3))]
    ELSE IF timestamp.k = "str" /\ isIsoString(timestamp.s)
    THEN [nan |-> FALSE,
          n |-> daysFromEpoch(number(SubSeq(timestamp.s, 1, 4)),
                              number(SubSeq(timestamp.s, 6, 7)),
                              number(SubSeq(timestamp.s, 9, 10))) * 86400
                    + number(SubSeq(timestamp.s, 12, 13)) * 3600
                    + number(SubSeq(timestamp.s, 15, 16)) * 60
                    + number(SubSeq(timestamp.s, 18, 19))]
    ELSE NaN

HexChars == DigitChars \o <<"a", "b", "c", "d", "e", "f">>

RECURSIVE toString16(_)
\* n.toString(16) for a natural number
toString16(n) ==
    IF n < 16 THEN <<HexChars[n + 1]>> ELSE toString16(n \div 16) \o <<HexChars[(n % 16) + 1]>>

\* epochSeconds.toString(16)
hexSeconds(e) == IF e.nan THEN <<"N", "a", "N">> ELSE toString16(e.n)

(***************************************************************************)
(* The renderers on whole records (src/utils/aws-formatter.js,             *)
(* src/utils/formatters.js). A record is an object; its traceId and spanId *)
(* are strings when present.                                               *)
(***************************************************************************)
\* object[key]: undefined when object is no object or has no such key
field(object, key) ==
    IF object.k = "object" /\ \E n \in 1..Len(object.entries) : object.entries[n].key = key
    THEN object.entries[CHOOSE n \in 1..Len(object.entries) : object.entries[n].key = key].value
    ELSE Undefined

\* a || b
or(a, b) == IF Truthy(a) THEN a ELSE b

\* if (cond) result[key] = value
setIf(cond, entries, key, value) == IF cond THEN put(entries, key, value) ELSE entries

GcpPrefix == <<"l", "o", "g", "g", "i", "n", "g", ".", "g", "o", "o", "g", "l", "e", "a", "p", "i", "s", ".", "c", "o", "m", "/">>

\* SEVERITY_LEVEL[level]
SEVERITY_LEVEL(level) ==
    CASE level = Str(<<"t", "r", "a", "c", "e">>) -> Str(<<"D", "E", "B", "U", "G">>)
      [] level = Str(<<"d", "e", "b", "u", "g">>) -> Str(<<"D", "E", "B", "U", "G">>)
      [] level = Str(<<"i", "n", "f", "o">>) -> Str(<<"I", "N", "F", "O">>)
      [] level = Str(<<"w", "a", "r", "n">>) -> Str(<<"W", "A", "R", "N", "I", "N", "G">>)
      [] level = Str(<<"e", "r", "r", "o", "r">>) -> Str(<<"E", "R", "R", "O", "R">>)
      [] level = Str(<<"f", "a", "t", "a", "l">>) -> Str(<<"C", "R", "I", "T", "I", "C", "A", "L">>)
      [] OTHER -> Undefined

\* levelToSeverity[level]: a property is looked up by the text of its key
levelToSeverity(level) ==
    IF level.k \notin {"num", "str"} THEN Undefined
    ELSE CASE level.s = <<"1", "0">> -> Str(<<"D", "E", "B", "U", "G">>)
           [] level.s = <<"2", "0">> -> Str(<<"D", "E", "B", "U", "G">>)
           [] level.s = <<"3", "0">> -> Str(<<"I", "N", "F", "O">>)
           [] level.s = <<"4", "0">> -> Str(<<"W", "A", "R", "N", "I", "N", "G">>)
           [] level.s = <<"5", "0">> -> Str(<<"E", "R", "R", "O", "R">>)
           [] level.s = <<"6", "0">> -> Str(<<"C", "R", "I", "T", "I", "C", "A", "L">>)
           [] OTHER -> Undefined

\* generateXAmznTraceId(traceId, spanId) for a string traceId; nowHex is the
\* hex of Math.floor(Date.now() / 1000)
generateXAmznTraceId(traceId, spanId, nowHex) ==
    LET awsTraceId == IF IsXRayShape(traceId) THEN traceId
                      ELSE convertToAwsXRayTraceId(traceId, nowHex)
    IN  IF traceId = <<>> \/ awsTraceId = <<>> THEN Null
        ELSE Str(RootKey \o awsTraceId
                     \o (IF Truthy(spanId) THEN <<";">> \o ParentKey \o awsSpanId(spanId.s)
                         ELSE <<>>)
                     \o <<";">> \o SampledKey \o <<"1">>)

\* the log type formatAwsLog and formatJsonLog go by:
\* object.LOG_TYPE || object.logType || getConfigValue('LOG_TYPE', 'gcp')
renderedAs(object, config) ==
    or(field(object, <<"L", "O", "G", "_", "T", "Y", "P", "E">>), or(field(object, <<"l", "o", "g", "T", "y", "p", "e">>), Str(config)))

\* formatAwsLog(object): rid is the request id randomBytes yields, nowIso is
\* new Date().toISOString(). The pathname of httpRequest.requestUrl is the url
\* itself (a relative url, as req.originalUrl is)
formatAwsLog(object, config, rid, nowIso) ==
    LET get(key) == field(object, key)
        httpRequest(key) == field(get(<<"h", "t", "t", "p", "R", "e", "q", "u", "e", "s", "t">>), key)
        level == get(<<"l", "e", "v", "e", "l">>)
        timestamp == or(get(<<"t", "i", "m", "e", "s", "t", "a", "m", "p">>), or(get(<<"t", "i", "m", "e">>), Str(nowIso)))
        msg == get(<<"m", "s", "g">>)
        message == get(<<"m", "e", "s", "s", "a", "g", "e">>)
        traceId == get(<<"t", "r", "a", "c", "e", "I", "d">>)
        spanId == get(<<"s", "p", "a", "n", "I", "d">>)
        awsTraceId == convertToAwsXRayTraceId(traceId.s, hexSeconds(epochSeconds(timestamp)))
        r1 == <<Entry(<<"s", "e", "v", "e", "r", "i", "t", "y">>,
                      IF Truthy(get(<<"s", "e", "v", "e", "r", "i", "t", "y">>)) THEN get(<<"s", "e", "v", "e", "r", "i", "t", "y">>)
                      ELSE IF level # Undefined
                      THEN or(levelToSeverity(level), SEVERITY_LEVEL(Str(<<"i", "n", "f", "o">>)))
                      ELSE Str(<<"I", "N", "F", "O">>))>>
        r2 == setIf(level # Undefined, r1, <<"l", "e", "v", "e", "l">>, level)
        r3 == put(r2, <<"t", "i", "m", "e", "s", "t", "a", "m", "p">>, timestamp)
        r4 == put(r3, <<"t", "y", "p", "e">>, or(get(<<"t", "y", "p", "e">>), Str(<<"c", "o", "n", "s", "o", "l", "e", "_", "l", "o", "g">>)))
        r5 == setIf((msg.k = "str" /\ msg.s # <<>>) \/ (message.k = "str" /\ message.s # <<>>),
                    r4, <<"m", "e", "s", "s", "a", "g", "e">>, IF msg.k = "str" /\ msg.s # <<>> THEN msg ELSE message)
        r6 == setIf(Truthy(get(<<"s", "e", "r", "v", "i", "c", "e">>)), r5, <<"s", "e", "r", "v", "i", "c", "e">>, get(<<"s", "e", "r", "v", "i", "c", "e">>))
        r7 == setIf(get(<<"p", "i", "d">>) # Undefined, r6, <<"p", "i", "d">>, get(<<"p", "i", "d">>))
        r8 == setIf(Truthy(get(<<"h", "o", "s", "t", "n", "a", "m", "e">>)), r7, <<"h", "o", "s", "t", "n", "a", "m", "e">>, get(<<"h", "o", "s", "t", "n", "a", "m", "e">>))
        r9 == put(r8, <<"r", "e", "q", "u", "e", "s", "t", "I", "d">>, or(get(<<"r", "e", "q", "u", "e", "s", "t", "I", "d">>), Str(rid)))
        r10 == IF Truthy(traceId)
               THEN put(put(put(r9, <<"t", "r", "a", "c", "e", "I", "d">>, Str(awsTraceId)),
                            <<"x", "-", "a", "m", "z", "n", "-", "t", "r", "a", "c", "e", "-", "i", "d">>,
                            generateXAmznTraceId(awsTraceId, spanId,
                                                 hexSeconds(epochSeconds(Str(nowIso))))),
                        <<"s", "a", "m", "p", "l", "e", "d">>, Bool(TRUE))
               ELSE r9
        r11 == setIf(Truthy(spanId), r10, <<"s", "p", "a", "n", "I", "d">>, Str(awsSpanId(spanId.s)))
        url == or(get(<<"u", "r", "l">>), or(get(<<"p", "a", "t", "h">>), httpRequest(<<"r", "e", "q", "u", "e", "s", "t", "U", "r", "l">>)))
        path == or(get(<<"p", "a", "t", "h">>), httpRequest(<<"r", "e", "q", "u", "e", "s", "t", "U", "r", "l">>))
        r12 == setIf(Truthy(or(get(<<"m", "e", "t", "h", "o", "d">>), httpRequest(<<"r", "e", "q", "u", "e", "s", "t", "M", "e", "t", "h", "o", "d">>))), r11,
                     <<"m", "e", "t", "h", "o", "d">>, or(get(<<"m", "e", "t", "h", "o", "d">>), httpRequest(<<"r", "e", "q", "u", "e", "s", "t", "M", "e", "t", "h", "o", "d">>)))
        r13 == setIf(Truthy(url), r12, <<"u", "r", "l">>, url)
        r14 == setIf(Truthy(path), r13, <<"p", "a", "t", "h">>, path)
        r15 == setIf(get(<<"p", "a", "r", "a", "m", "s">>) # Undefined, r14, <<"p", "a", "r", "a", "m", "s">>, get(<<"p", "a", "r", "a", "m", "s">>))
        r16 == setIf(Truthy(or(get(<<"r", "e", "m", "o", "t", "e", "A", "d", "d", "r", "e", "s", "s">>), httpRequest(<<"r", "e", "m", "o", "t", "e", "I", "p">>))), r15,
                     <<"r", "e", "m", "o", "t", "e", "A", "d", "d", "r", "e", "s", "s">>, or(get(<<"r", "e", "m", "o", "t", "e", "A", "d", "d", "r", "e", "s", "s">>), httpRequest(<<"r", "e", "m", "o", "t", "e", "I", "p">>)))
        r17 == setIf(Truthy(or(get(<<"h", "e", "a", "d", "e", "r", "s">>), httpRequest(<<"h", "e", "a", "d", "e", "r", "s">>))), r16,
                     <<"h", "e", "a", "d", "e", "r", "s">>, or(get(<<"h", "e", "a", "d", "e", "r", "s">>), httpRequest(<<"h", "e", "a", "d", "e", "r", "s">>)))
        r18 == setIf(Truthy(or(get(<<"r", "e", "q", "u", "e", "s", "t", "_", "p", "a", "y", "l", "o", "a", "d">>), httpRequest(<<"r", "e", "q", "u", "e", "s", "t", "B", "o", "d", "y">>))), r17,
                     <<"r", "e", "q", "u", "e", "s", "t", "_", "p", "a", "y", "l", "o", "a", "d">>,
                     or(get(<<"r", "e", "q", "u", "e", "s", "t", "_", "p", "a", "y", "l", "o", "a", "d">>), httpRequest(<<"r", "e", "q", "u", "e", "s", "t", "B", "o", "d", "y">>)))
        r19 == setIf(Truthy(get(<<"t", "a", "r", "g", "e", "t", "_", "s", "e", "r", "v", "i", "c", "e">>)), r18,
                     <<"t", "a", "r", "g", "e", "t", "_", "s", "e", "r", "v", "i", "c", "e">>, get(<<"t", "a", "r", "g", "e", "t", "_", "s", "e", "r", "v", "i", "c", "e">>))
        r20 == setIf(Truthy(get(<<"r", "e", "s", "p", "o", "n", "s", "e">>)), r19, <<"r", "e", "s", "p", "o", "n", "s", "e">>, get(<<"r", "e", "s", "p", "o", "n", "s", "e">>))
        \* of the rest only the allowed extra fields are copied: 'response' and
        \* 'message' were taken out above, which leaves 'logLevel'
        r21 == setIf(get(<<"l", "o", "g", "L", "e", "v", "e", "l">>) # Undefined, r20, <<"l", "o", "g", "L", "e", "v", "e", "l">>, get(<<"l", "o", "g", "L", "e", "v", "e", "l">>))
    IN  IF ~Truthy(object) \/ object.k # "object" THEN object
        ELSE IF renderedAs(object, config) # Str(<<"a", "w", "s">>) THEN object
        ELSE Object(SelectSeq(r21, LAMBDA e : ~startsWith(e.key, GcpPrefix) /\ e.key # <<"t", "i", "m", "e">>))

SERVICE_NAME == <<"e", "x", "p", "r", "e", "s", "s", "-", "a", "p", "p">>

\* getEffectiveLoggerName(logSource)
getEffectiveLoggerName(logSource) ==
    IF logSource = Str(<<"e", "x", "c", "e", "p", "t", "i", "o", "n">>) THEN <<"e", "r", "r", "o", "r", "-", "l", "o", "g", "g", "e", "r">>
    ELSE IF logSource = Str(<<"c", "o", "n", "s", "o", "l", "e">>) THEN <<"c", "o", "n", "s", "o", "l", "e", "-", "l", "o", "g", "g", "e", "r">>
    ELSE <<"a", "p", "i", "-", "l", "o", "g", "g", "e", "r">>

\* getCloudLogName(projectId, loggerName)
getCloudLogName(projectId, loggerName) ==
    IF projectId = <<>> THEN loggerName
    ELSE <<"p", "r", "o", "j", "e", "c", "t", "s", "/">> \o projectId \o <<"/", "l", "o", "g", "s", "/">> \o loggerName

RECURSIVE spread(_, _)
\* { ...formatted, ...log }: a key that is there keeps its place
spread(formatted, log) ==
    IF log = <<>> THEN formatted
    ELSE spread(put(formatted, Head(log).key, Head(log).value), Tail(log))

\* formatJsonLog(log) on a whole record, with the default options
formatJsonLogRecord(log, config, rid, nowIso) ==
    LET get(key) == field(log, key)
        loggerName == getEffectiveLoggerName(get(<<"l", "o", "g", "S", "o", "u", "r", "c", "e">>))
        f1 == <<Entry(<<"s", "e", "v", "e", "r", "i", "t", "y">>,
                      or(SEVERITY_LEVEL(or(get(<<"l", "e", "v", "e", "l">>), Str(<<"i", "n", "f", "o">>))), Str(<<"D", "E", "F", "A", "U", "L", "T">>)))>>
        f2 == IF Truthy(get(<<"t", "r", "a", "c", "e", "I", "d">>))
              THEN put(put(f1, GcpPrefix \o <<"t", "r", "a", "c", "e">>,
                           IF PROJECT_ID # <<>>
                           THEN Str(TracePrefix(PROJECT_ID) \o get(<<"t", "r", "a", "c", "e", "I", "d">>).s)
                           ELSE get(<<"t", "r", "a", "c", "e", "I", "d">>)),
                       GcpPrefix \o <<"s", "p", "a", "n", "I", "d">>, get(<<"s", "p", "a", "n", "I", "d">>))
              ELSE f1
        f3 == put(put(put(f2, GcpPrefix \o <<"l", "o", "g", "N", "a", "m", "e">>,
                          Str(getCloudLogName(PROJECT_ID, loggerName))),
                      GcpPrefix \o <<"l", "a", "b", "e", "l", "s">>,
                      Object(<<Entry(<<"r", "e", "q", "u", "e", "s", "t", "I", "d">>, get(<<"r", "e", "q", "u", "e", "s", "t", "I", "d">>)),
                               Entry(<<"s", "e", "r", "v", "i", "c", "e">>, Str(SERVICE_NAME)),
                               Entry(<<"l", "o", "g", "N", "a", "m", "e">>,
                                     Str(getCloudLogName(PROJECT_ID, <<"a", "p", "i", "-", "l", "o", "g", "g", "e", "r">>)))>>)),
                  <<"r", "e", "s", "o", "u", "r", "c", "e">>,
                  Object(<<Entry(<<"t", "y", "p", "e">>, Str(<<"g", "l", "o", "b", "a", "l">>)),
                           Entry(<<"l", "a", "b", "e", "l", "s">>,
                                 Object(<<Entry(<<"p", "r", "o", "j", "e", "c", "t", "_", "i", "d">>, Str(PROJECT_ID)),
                                          Entry(<<"l", "o", "g", "g", "e", "r", "_", "n", "a", "m", "e">>, Str(loggerName))>>))>>))
        f4 == setIf(Truthy(get(<<"s", "o", "u", "r", "c", "e", "L", "o", "c", "a", "t", "i", "o", "n">>)), f3,
                    GcpPrefix \o <<"s", "o", "u", "r", "c", "e", "L", "o", "c", "a", "t", "i", "o", "n">>, get(<<"s", "o", "u", "r", "c", "e", "L", "o", "c", "a", "t", "i", "o", "n">>))
        f5 == setIf(Truthy(get(<<"o", "p", "e", "r", "a", "t", "i", "o", "n">>)), f4, GcpPrefix \o <<"o", "p", "e", "r", "a", "t", "i", "o", "n">>, get(<<"o", "p", "e", "r", "a", "t", "i", "o", "n">>))
        f6 == setIf(Truthy(get(<<"h", "t", "t", "p", "R", "e", "q", "u", "e", "s", "t">>)), f5,
                    GcpPrefix \o <<"h", "t", "t", "p", "R", "e", "q", "u", "e", "s", "t">>, get(<<"h", "t", "t", "p", "R", "e", "q", "u", "e", "s", "t">>))
        f7 == spread(f6, log.entries)
    IN  IF ~Truthy(log) \/ log.k # "object" THEN log
        ELSE IF renderedAs(log, config) = Str(<<"a", "w", "s">>) THEN formatAwsLog(log, config, rid, nowIso)
        ELSE Object(SelectSeq(f7, LAMBDA e :
                 e.key \notin {<<"p", "i", "d">>, <<"h", "o", "s", "t", "n", "a", "m", "e">>, <<"r", "e", "q", "u", "e", "s", "t", "I", "d">>, <<"s", "e", "r", "v", "i", "c", "e">>, <<"t", "r", "a", "c", "e", "I", "d">>,
                               <<"s", "p", "a", "n", "I", "d">>, <<"s", "o", "u", "r", "c", "e", "L", "o", "c", "a", "t", "i", "o", "n">>, <<"o", "p", "e", "r", "a", "t", "i", "o", "n">>}))

(***************************************************************************)
(* The bounded workload                                                    *)
(***************************************************************************)
\* the requests in flight on one worker
Req == {"A", "B"}

\* code that runs for no request (started before any request arrived)
Outside == "outside"

\* the chains of asynchronous execution: one per request, and the code outside
Chains == Req \cup {Outside}

\* asyncLocalStorage.getStore() === undefined
NoStore == "none"

\* asynchronous hops (timers, deferred callbacks) one request's handling makes
MaxHops == 2

\* write / end calls the handler makes on one response
MaxCalls == 2

\* error-level events per request
MaxErrors == 1

T32a == Rep("a", TraceIdLen)
S16b == Rep("b", SpanIdLen)
X24c == Rep("c", AwsRandomLen)

ValidTraceParent == <<"0", "0", "-">> \o T32a \o <<"-">> \o S16b \o <<"-", "0", "1">>
ValidTraceParent2 == <<"f", "e", "-">> \o Rep("d", TraceIdLen) \o <<"-">> \o S16b \o <<"-", "0", "0">>
ValidCloudTrace == T32a \o <<"/", "7", ";", "o", "=", "0">>
\* a Root value in the X-Ray form 1-{timestamp}-{id}
XRayRoot == <<"1", "-">> \o Rep("5", AwsTimeLen) \o <<"-">> \o X24c

ValidAmzn ==
    RootKey \o XRayRoot \o <<";">>
        \o ParentKey \o S16b \o <<";">> \o SampledKey \o <<"0">>

\* an x-amzn-trace-id header without a Root field
AmznNoRoot == SampledKey \o <<"1">>

NoHeaders ==
    [xRequestId |-> Undefined, cloud |-> Undefined, traceparent |-> Undefined,
     amzn |-> Undefined, tracestate |-> Undefined]

\* the header sets of the requests the middleware handles
Inbound ==
    { NoHeaders,
      [NoHeaders EXCEPT !.traceparent = Str(ValidTraceParent),
                        !.tracestate = Str(<<"v", "=", "1">>)],
      [NoHeaders EXCEPT !.traceparent = Str(ValidTraceParent2),
                        !.xRequestId = Str(<<"r", "q">>)],
      [NoHeaders EXCEPT !.cloud = Str(ValidCloudTrace),
                        !.traceparent = Str(ValidTraceParent2)],
      [NoHeaders EXCEPT !.amzn = Str(ValidAmzn), !.xRequestId = Str(<<"r", "q">>)],
      [NoHeaders EXCEPT !.amzn = Str(AmznNoRoot)] }

Paths ==
    { <<"/", "a", "p", "i">>,
      <<"/", "h", "e", "a", "l", "t", "h">> }

\* a path only a pattern with a wildcard excludes
WildcardPath == <<"/", "v", "1", "/", "m", "e", "t", "r", "i", "c", "s">>

\* options.excludePaths
excludePaths == << <<"/", "l", "i", "v", "e">> >>

\* the random draws of one request: the same pool index for every width
RequestDraws ==
    {[r16 |-> Rep(DrawChar[i], TraceIdLen), r8 |-> Rep(DrawChar[i], SpanIdLen),
      r12 |-> Rep(DrawChar[i], AwsRandomLen), rid |-> Rep(DrawChar[i], RequestIdLen),
      now |-> CHOOSE c \in Clock : TRUE] : i \in 1..NumDraws}

\* the text of a response body with a password in it
PasswordJson == <<"{", "\"", "p", "a", "s", "s", "w", "o", "r", "d", "\"", ":", "\"", "s", "e", "c", "r", "e", "t", "\"", ",", "\"", "o", "k", "\"", ":", "t", "r", "u", "e", "}">>

\* what the handler passes to write / end: chunk, encoding, callback
WriteArgs ==
    { [chunk |-> Str(<<"o", "k">>), encoding |-> Str(<<"u", "t", "f", "8">>), callback |-> Fn],
      [chunk |-> Str(PasswordJson), encoding |-> Fn, callback |-> Undefined] }

\* end is also called without a chunk: end() and end(callback)
EndArgs ==
    { [chunk |-> Str(<<"o", "k">>), encoding |-> Str(<<"u", "t", "f", "8">>), callback |-> Fn],
      [chunk |-> Undefined, encoding |-> Undefined, callback |-> Undefined],
      [chunk |-> Fn, encoding |-> Undefined, callback |-> Undefined] }

\* statuses a handler sets
StatusCodes == {200, 500}

\* the edges of the status ranges; 0 stands for a missing status
EdgeStatusCodes == {0, 200, 399, 400, 499, 500, 599, 600}

\* application errors a handler throws or passes to next
AppErrors ==
    { [name |-> Str(<<"E", "r", "r", "o", "r">>), type |-> Undefined, message |-> Str(<<"t", "e", "s", "t", " ", "e", "r", "r", "o", "r">>),
       code |-> Undefined, status |-> Undefined,
       stack |-> Str(<<"E", "r", "r", "o", "r", ":", " ", "t", "e", "s", "t", " ", "e", "r", "r", "o", "r", " ", "a", "t", " ", "h", "a", "n", "d", "l", "e", "r">>)],
      [name |-> Str(<<"N", "o", "t", "F", "o", "u", "n", "d">>), type |-> Undefined, message |-> Str(<<"m", "i", "s", "s", "i", "n", "g">>),
       code |-> Str(<<"E", "_", "N", "O", "T", "_", "F", "O", "U", "N", "D">>), status |-> Num(<<"4", "0", "4">>),
       stack |-> Str(<<"N", "o", "t", "F", "o", "u", "n", "d", ":", " ", "m", "i", "s", "s", "i", "n", "g", " ", "a", "t", " ", "h", "a", "n", "d", "l", "e", "r">>)] }

\* the error a failing log statement throws
LogError ==
    [name |-> Str(<<"T", "y", "p", "e", "E", "r", "r", "o", "r">>), type |-> Undefined, message |-> Str(<<"l", "o", "g", "g", "i", "n", "g", " ", "f", "a", "i", "l", "e", "d">>),
     code |-> Undefined, status |-> Undefined,
     stack |-> Str(<<"T", "y", "p", "e", "E", "r", "r", "o", "r", ":", " ", "l", "o", "g", "g", "i", "n", "g", " ", "f", "a", "i", "l", "e", "d", " ", "a", "t", " ", "r", "e", "q", "u", "e", "s", "t", "L", "o", "g", "g", "e", "r">>)]

(***************************************************************************)
(* State                                                                   *)
(***************************************************************************)
VARIABLES
    logType,          \* getConfigValue('LOG_TYPE', 'gcp')
    logResponseBody,  \* options.logResponseBody
    phase,            \* per request: where its handling stands
    heap,             \* per request: the RequestContext created for it, if any
    store,            \* per chain: the AsyncLocalStorage store of the code now running in it
    task,             \* per request: the store its pending continuation captured
    hops,             \* per request: asynchronous hops made
    obs,              \* per request: what its last RequestContext.get() returned
    outside,          \* what the last RequestContext.get() outside every scope returned
    res,              \* per request: the response object
    calls,            \* per request: the write / end calls the handler made, with their results
    delivered,        \* per request: the calls the original write / end received
    logs,             \* per request: the records handed to the logger
    nexts,            \* per request: the next(...) calls of the middleware
    pendingErr,       \* per request: the error on its way through the error middleware
    req,              \* per request: the inbound request (headers, path)
    pureIn,           \* the input of a parser under test
    pureOut           \* its result

vars ==
    <<logType, logResponseBody, phase, heap, store, task, hops, obs, outside, res, calls,
      delivered, logs, nexts, pendingErr, req, pureIn, pureOut>>

reqVars ==
    <<logType, logResponseBody, phase, heap, store, task, hops, obs, outside, res, calls,
      delivered, logs, nexts, pendingErr, req>>

None == [k |-> "none"]

\* a response before any middleware touched it
NewResponse ==
    [headers |-> [traceparent |-> Undefined, cloud |-> Undefined, tracestate |-> Undefined,
                  amzn |-> Undefined, xRequestId |-> Undefined],
     hooked |-> FALSE, chunks |-> <<>>, statusCode |-> 200, ended |-> FALSE]

InitRequests ==
    /\ logType \in {"gcp", "aws"}
    /\ logResponseBody \in BOOLEAN
    /\ phase = [r \in Req |-> "idle"]
    /\ heap = [r \in Req |-> None]
    /\ store = [c \in Chains |-> NoStore]
    /\ task = [r \in Req |-> None]
    /\ hops = [r \in Req |-> 0]
    /\ obs = [r \in Req |-> None]
    /\ outside = None
    /\ res = [r \in Req |-> NewResponse]
    /\ calls = [r \in Req |-> <<>>]
    /\ delivered = [r \in Req |-> <<>>]
    /\ logs = [r \in Req |-> <<>>]
    /\ nexts = [r \in Req |-> <<>>]
    /\ pendingErr = [r \in Req |-> None]
    /\ req = [r \in Req |-> None]

Init == InitRequests /\ pureIn = None /\ pureOut = None

(***************************************************************************)
(* Ambient context (src/context/async-context.js, src/context/index.js)    *)
(***************************************************************************)
\* a faulty variant of getStore: one process-wide slot that holds a context
\* some request installed, whoever asks
sharedStore(c) ==
    IF \E q \in Req : heap[q] # None
    THEN CHOOSE q \in Req : heap[q] # None
    ELSE NoStore

\* asyncLocalStorage.getStore() as seen by the code running in chain c: the
\* store that chain's execution inherited
getStore(c) == store[c]

\* RequestContext.get() called by the code running in chain c
get(c) == IF getStore(c) = NoStore THEN NewRequestContext ELSE heap[getStore(c)]

\* one observation of RequestContext.get()
Seen(c) == [k |-> "ctx", from |-> getStore(c), ctx |-> get(c)]

(***************************************************************************)
(* Request middleware (src/middleware/request-logger.js)                   *)
(***************************************************************************)
Ok == [k |-> "ok"]

Err(e) == [k |-> "err", error |-> e]

\* a faulty variant of getLogLevel: only server errors are told apart
getLogLevelServerOnly(statusCode) ==
    IF statusCode \div 100 = 5 THEN "error" ELSE "info"

\* HttpLogger.getLogLevel
getLogLevel(statusCode) ==
    IF statusCode = 0 THEN "info"
    ELSE IF statusCode \div 100 = 5 THEN "error"
    ELSE IF statusCode \div 100 = 4 THEN "warn"
    ELSE "info"

\* HttpLogger.createBaseContext: baseLogData of a context
baseLogDataOf(ctx) ==
    [requestId |-> ctx.requestId, traceId |-> traceIdOf(ctx), spanId |-> spanIdOf(ctx)]

\* HttpLogger.createRequestLog
createRequestLog(baseLogData, now) ==
    formatJsonLog([type |-> "request", requestId |-> baseLogData.requestId,
                   traceId |-> baseLogData.traceId, spanId |-> baseLogData.spanId],
                  logType, now)

\* HttpLogger.createResponseLog
createResponseLog(baseLogData, now) ==
    formatJsonLog([type |-> "response", requestId |-> baseLogData.requestId,
                   traceId |-> baseLogData.traceId, spanId |-> baseLogData.spanId],
                  logType, now)

\* HttpLogger.setTraceHeaders(res, context): the response's headers afterwards
setTraceHeaders(headers, ctx) ==
    IF ctx.traceContext.k = "null" THEN headers
    ELSE LET tc == ctx.traceContext.tc
             tracestate == toTraceState(tc)
         IN  [headers EXCEPT
                 !.traceparent = Str(toTraceParent(tc)),
                 !.cloud = Str(toCloudTrace(tc)),
                 !.tracestate = IF tracestate # <<>> THEN Str(tracestate) ELSE @]

\* the middleware createRequestLogger returns, called with a request of the
\* workload W; fails says whether building or emitting the request record throws
RequestLogger(r, W) ==
    /\ phase[r] = "idle"
    /\ \E h \in W.inbound, path \in W.paths, rnd \in W.draws, fails \in W.fails :
         /\ req' = [req EXCEPT ![r] = [headers |-> h, path |-> path]]
         /\ IF shouldExcludePath(path, excludePaths)
            THEN /\ ~fails
                 /\ nexts' = [nexts EXCEPT ![r] = Append(@, Ok)]
                 /\ phase' = [phase EXCEPT ![r] = "handler"]
                 /\ UNCHANGED <<heap, store, logs, res, pendingErr>>
            ELSE LET ctx == create(h, logType, rnd)
                     contextLogData == baseLogDataOf(ctx)
                 IN  /\ heap' = [heap EXCEPT ![r] = ctx]
                     /\ store' = [store EXCEPT ![r] = r]
                     /\ IF ~fails
                        THEN /\ logs' = [logs EXCEPT ![r] = Append(@,
                                    [level |-> "info", by |-> "requestLogger",
                                     rec |-> createRequestLog(contextLogData, rnd.now)])]
                             /\ res' = [res EXCEPT
                                    ![r].headers = setTraceHeaders(@, ctx),
                                    ![r].hooked = TRUE]
                             /\ nexts' = [nexts EXCEPT ![r] = Append(@, Ok)]
                             /\ phase' = [phase EXCEPT ![r] = "handler"]
                             /\ UNCHANGED pendingErr
                        ELSE /\ logs' = [logs EXCEPT ![r] = Append(@,
                                    [level |-> "error", by |-> "requestLogger",
                                     rec |-> [type |-> "middlewareError",
                                              requestId |-> Str(contextLogData.requestId),
                                              traceId |-> Str(contextLogData.traceId),
                                              spanId |-> Str(contextLogData.spanId),
                                              trace |-> Undefined,
                                              traceSpanId |-> Undefined,
                                              labelRequestId |-> Undefined]])]
                             /\ nexts' = [nexts EXCEPT ![r] = Append(@, Err(LogError))]
                             /\ pendingErr' = [pendingErr EXCEPT ![r] = LogError]
                             /\ phase' = [phase EXCEPT ![r] = "error"]
                             /\ UNCHANGED res
    /\ UNCHANGED <<logType, logResponseBody, task, hops, obs, outside, calls, delivered,
                   pureIn, pureOut>>

(***************************************************************************)
(* The handler and what it starts                                          *)
(***************************************************************************)
\* the route handler, or a continuation it started, calls RequestContext.get()
HandlerGet(r) ==
    /\ phase[r] = "handler"
    /\ obs' = [obs EXCEPT ![r] = Seen(r)]
    /\ UNCHANGED <<logType, logResponseBody, phase, heap, store, task, hops, outside, res,
                   calls, delivered, logs, nexts, pendingErr, req, pureIn, pureOut>>

\* RequestContext.get().setMetadata('owner', r)
SetMetadata(r) ==
    /\ phase[r] = "handler"
    /\ IF getStore(r) = NoStore
       THEN UNCHANGED heap
       ELSE heap' = [heap EXCEPT ![getStore(r)].metadata = mapSet(@, "owner", r)]
    /\ UNCHANGED <<logType, logResponseBody, phase, store, task, hops, obs, outside, res,
                   calls, delivered, logs, nexts, pendingErr, req, pureIn, pureOut>>

\* the handler starts a timer or a deferred callback: the continuation captures
\* the store of the code that starts it
Defer(r) ==
    /\ phase[r] = "handler"
    /\ hops[r] < MaxHops
    /\ task' = [task EXCEPT ![r] = [k |-> "task", store |-> getStore(r)]]
    /\ hops' = [hops EXCEPT ![r] = @ + 1]
    /\ phase' = [phase EXCEPT ![r] = "waiting"]
    /\ UNCHANGED <<logType, logResponseBody, heap, store, obs, outside, res, calls,
                   delivered, logs, nexts, pendingErr, req, pureIn, pureOut>>

\* the event loop runs the continuation, in the store it captured
Resume(r) ==
    /\ phase[r] = "waiting"
    /\ store' = [store EXCEPT ![r] = task[r].store]
    /\ task' = [task EXCEPT ![r] = None]
    /\ phase' = [phase EXCEPT ![r] = "handler"]
    /\ UNCHANGED <<logType, logResponseBody, heap, hops, obs, outside, res, calls,
                   delivered, logs, nexts, pendingErr, req, pureIn, pureOut>>

\* code outside every request scope calls RequestContext.get()
OutsideGet ==
    /\ outside' = Seen(Outside)
    /\ UNCHANGED <<logType, logResponseBody, phase, heap, store, task, hops, obs, res,
                   calls, delivered, logs, nexts, pendingErr, req, pureIn, pureOut>>

(***************************************************************************)
(* ResponseInterceptor (src/middleware/request-logger.js)                  *)
(***************************************************************************)
\* Buffer.from(chunk) throws a TypeError: chunk is neither a string nor a buffer
bufferThrows(chunk) == Truthy(chunk) /\ logResponseBody /\ chunk.k # "str"

\* a faulty variant of the cleanup: write and end stay intercepted
keepInterceptors(hooked) == hooked

\* the cleanup of endInterceptor (this.res.write = this._originalWrite;
\* this.res.end = this._originalEnd): whether write and end are intercepted
\* afterwards
restoreOriginals(hooked) == FALSE

\* the chunks after writeInterceptor / endInterceptor buffered one
buffered(chunks, chunk) ==
    IF Truthy(chunk) /\ logResponseBody THEN Append(chunks, chunk.s) ELSE chunks

\* the response body createResponseLog logs: Buffer.concat(chunks) as text,
\* sanitized; undefined when nothing was buffered
responseBody(chunks) ==
    IF chunks = <<>> THEN Undefined
    ELSE sanitizeBody(Str(join(chunks, <<>>)), getSensitiveFields(<<>>), 0)

\* the handler calls res.write(chunk, encoding, callback); ret is what the
\* original write returns
write(r) ==
    /\ phase[r] = "handler"
    /\ Len(calls[r]) < MaxCalls
    /\ \E a \in WriteArgs, ret \in BOOLEAN :
         /\ res' = [res EXCEPT ![r].chunks = IF res[r].hooked THEN buffered(@, a.chunk) ELSE @]
         /\ delivered' = [delivered EXCEPT ![r] =
                             Append(@, [op |-> "write", args |-> a, result |-> ret])]
         /\ calls' = [calls EXCEPT ![r] =
                         Append(@, [op |-> "write", args |-> a, result |-> ret])]
    /\ UNCHANGED <<logType, logResponseBody, phase, heap, store, task, hops, obs, outside,
                   logs, nexts, pendingErr, req, pureIn, pureOut>>

\* the handler calls res.write on a response it has not finalized
Write(r) == ~res[r].ended /\ write(r)

\* the handler calls res.write on a response it has finalized
LateWrite(r) == res[r].ended /\ write(r)

\* the handler sets the status, unless the response is already finalized, and
\* calls res.end(chunk, encoding, callback); fails says whether building or
\* emitting the response record throws. When the interceptor throws, the
\* handler's call throws and the original end is not reached
end(r, codes) ==
    /\ phase[r] = "handler"
    /\ Len(calls[r]) < MaxCalls
    /\ \E a \in EndArgs, fails \in BOOLEAN, now \in Clock,
          code \in IF res[r].ended THEN {res[r].statusCode} ELSE codes :
         IF res[r].hooked
         THEN IF bufferThrows(a.chunk)
              THEN /\ ~fails
                   /\ res' = [res EXCEPT ![r].statusCode = code]
                   /\ calls' = [calls EXCEPT ![r] =
                                   Append(@, [op |-> "end", args |-> a, result |-> "threw"])]
                   /\ UNCHANGED <<delivered, logs>>
              ELSE IF fails
              THEN /\ res' = [res EXCEPT ![r].statusCode = code,
                                         ![r].chunks = buffered(@, a.chunk)]
                   /\ calls' = [calls EXCEPT ![r] =
                                   Append(@, [op |-> "end", args |-> a, result |-> "threw"])]
                   /\ UNCHANGED <<delivered, logs>>
              ELSE /\ logs' = [logs EXCEPT ![r] = Append(@,
                          [level |-> getLogLevel(code), by |-> "endInterceptor",
                           rec |-> createResponseLog(baseLogDataOf(heap[r]), now),
                           statusCode |-> code,
                           body |-> responseBody(buffered(res[r].chunks, a.chunk))])]
                   /\ res' = [res EXCEPT ![r].statusCode = code,
                                         ![r].chunks = buffered(@, a.chunk),
                                         ![r].hooked = restoreOriginals(@),
                                         ![r].ended = TRUE]
                   /\ delivered' = [delivered EXCEPT ![r] =
                                       Append(@, [op |-> "end", args |-> a, result |-> "res"])]
                   /\ calls' = [calls EXCEPT ![r] =
                                   Append(@, [op |-> "end", args |-> a, result |-> "res"])]
         ELSE /\ ~fails
              /\ res' = [res EXCEPT ![r].statusCode = code, ![r].ended = TRUE]
              /\ delivered' = [delivered EXCEPT ![r] =
                                  Append(@, [op |-> "end", args |-> a, result |-> "res"])]
              /\ calls' = [calls EXCEPT ![r] =
                              Append(@, [op |-> "end", args |-> a, result |-> "res"])]
              /\ UNCHANGED logs
    /\ UNCHANGED <<logType, logResponseBody, phase, heap, store, task, hops, obs, outside,
                   nexts, pendingErr, req, pureIn, pureOut>>

\* the handler calls res.end on a response it has not finalized
End(r) == ~res[r].ended /\ end(r, StatusCodes)

\* the same, with a status at an edge of the ranges
EndAtEdge(r) == ~res[r].ended /\ end(r, EdgeStatusCodes)

\* the handler calls res.end on a response it has finalized
LateEnd(r) == res[r].ended /\ end(r, StatusCodes)

(***************************************************************************)
(* Error middleware (src/middleware/error-logger.js)                       *)
(***************************************************************************)
\* the handler throws, or passes an error to next
Throw(r) ==
    /\ phase[r] = "handler"
    /\ Len(nexts[r]) <= MaxErrors
    /\ \E e \in AppErrors : pendingErr' = [pendingErr EXCEPT ![r] = e]
    /\ phase' = [phase EXCEPT ![r] = "error"]
    /\ UNCHANGED <<logType, logResponseBody, heap, store, task, hops, obs, outside, res,
                   calls, delivered, logs, nexts, req, pureIn, pureOut>>

\* req.method of the requests of the workload
Method == <<"G", "E", "T">>

\* errorMetadata of createErrorLogger, with the default options
errorMetadata(err, context, request) ==
    Object(<<Entry(<<"m", "s", "g">>, or(err.message, Str(<<"R", "e", "q", "u", "e", "s", "t", " ", "e", "r", "r", "o", "r">>))),
             Entry(<<"e", "r", "r", "o", "r">>,
                   Object(<<Entry(<<"t", "y", "p", "e">>, or(err.type, err.name)),
                            Entry(<<"m", "e", "s", "s", "a", "g", "e">>, err.message),
                            Entry(<<"c", "o", "d", "e">>, err.code),
                            Entry(<<"s", "t", "a", "t", "u", "s", "C", "o", "d", "e">>, or(err.status, Num(<<"5", "0", "0">>))),
                            Entry(<<"s", "t", "a", "c", "k">>, err.stack)>>)),
             Entry(<<"r", "e", "q", "u", "e", "s", "t", "I", "d">>, Str(context.requestId)),
             Entry(<<"t", "r", "a", "c", "e", "I", "d">>, Str(traceIdOf(context))),
             Entry(<<"s", "p", "a", "n", "I", "d">>, Str(spanIdOf(context))),
             Entry(<<"p", "a", "t", "h">>, Str(request.path)),
             Entry(<<"m", "e", "t", "h", "o", "d">>, Str(Method)),
             Entry(<<"l", "o", "g", "S", "o", "u", "r", "c", "e">>, Str(<<"e", "x", "c", "e", "p", "t", "i", "o", "n">>)),
             Entry(<<"s", "t", "a", "t", "u", "s", "C", "o", "d", "e">>, or(err.status, Num(<<"5", "0", "0">>)))>>)

\* getConfigValue('LOG_TYPE', 'gcp') as text
logTypeText(type) == IF type = "aws" THEN <<"a", "w", "s">> ELSE <<"g", "c", "p">>

\* the error middleware's logger.error call: rec holds the identifier fields
\* of formatJsonLog(errorMetadata)
errorRecord(err, context, request, rnd) ==
    [level |-> "error", by |-> "errorLogger",
     rec |-> formatJsonLog([type |-> "exception", requestId |-> context.requestId,
                            traceId |-> traceIdOf(context), spanId |-> spanIdOf(context)],
                           logType, rnd.now)]

\* formatJsonLog(errorMetadata): the whole record handed to logger.error
errorSent(err, context, request, rnd) ==
    formatJsonLogRecord(errorMetadata(err, context, request), logTypeText(logType),
                        rnd.rid, ClockIso)

\* the middleware createErrorLogger returns, called with the pending error;
\* fails says whether building or emitting the error record throws
ErrorLogger(r) ==
    /\ phase[r] = "error"
    /\ \E fails \in BOOLEAN, rnd \in RequestDraws :
         IF fails
         THEN UNCHANGED <<logs, nexts>>
         ELSE /\ logs' = [logs EXCEPT ![r] =
                             Append(@, errorRecord(pendingErr[r], get(r), req[r], rnd))]
              /\ nexts' = [nexts EXCEPT ![r] = Append(@, Err(pendingErr[r]))]
    /\ obs' = [obs EXCEPT ![r] = Seen(r)]
    /\ pendingErr' = [pendingErr EXCEPT ![r] = None]
    /\ phase' = [phase EXCEPT ![r] = "handler"]
    /\ UNCHANGED <<logType, logResponseBody, heap, store, task, hops, outside, res, calls,
                   delivered, req, pureIn, pureOut>>

(***************************************************************************)
(* Pure functions, applied to inputs drawn at the start                    *)
(***************************************************************************)
ValuesOf(S) == {Undefined} \cup {Str(x) : x \in S}

\* header combinations RequestContext.create is applied to
CreateHeaders ==
    [xRequestId : ValuesOf({<<"r", "q">>}),
     cloud : ValuesOf({<<>>, ValidCloudTrace, <<"X", "Y", "Z", "/", "1", ";", "o", "=", "1">>,
                       <<"a", "b", "c", "/", "1">>}),
     traceparent : ValuesOf({ValidTraceParent, toLowerCase(ValidTraceParent2),
                             <<"0", "0", "-", "z", "-", "1">>}),
     amzn : ValuesOf({ValidAmzn, AmznNoRoot, RootKey \o <<"g", "a", "r", "b", "a", "g", "e">>}),
     tracestate : ValuesOf({<<"v", "=", "1">>, <<"a", "=", "1", ",", " ", "b", "=", "2">>})]

InitCreate ==
    /\ InitRequests
    /\ pureIn \in [k : {"create"}, headers : CreateHeaders, rnd : RequestDraws]
    /\ pureOut = None

\* RequestContext.create(req)
Create ==
    /\ pureIn.k = "create"
    /\ pureOut = None
    /\ pureOut' = [k |-> "ctx", ctx |-> create(pureIn.headers, logType, pureIn.rnd)]
    /\ UNCHANGED <<reqVars, pureIn>>

NextCreate == Create

SpecCreate == InitCreate /\ [][NextCreate]_vars

\* the fields x-amzn-trace-id values are assembled from; <<>> leaves the field out
AmznRoots == {<<>>, XRayRoot, <<"g", "a", "r", "b", "a", "g", "e">>}

AmznParents == {<<>>, S16b, <<"X", "Y", "-", "1", "2", "A", "B">>, Rep("C", SpanIdLen + 4)}

AmznSampled == {<<>>, <<"0">>, <<"1">>}

AmznParts == [root : AmznRoots, parent : AmznParents, sampled : AmznSampled, quoted : BOOLEAN]

\* the header a client sends for the fields p
amznHeader(p) ==
    LET fields == (IF p.root = <<>> THEN <<>> ELSE <<RootKey \o p.root>>)
                      \o (IF p.parent = <<>> THEN <<>> ELSE <<ParentKey \o p.parent>>)
                      \o (IF p.sampled = <<>> THEN <<>> ELSE <<SampledKey \o p.sampled>>)
        text == join(fields, <<";", " ">>)
    IN  Str(IF p.quoted THEN <<"\"">> \o text \o <<"\"">> ELSE text)

NoAmznParts == [root |-> <<>>, parent |-> <<>>, sampled |-> <<>>, quoted |-> FALSE]

\* x-amzn-trace-id values parseAwsTraceId is applied to
AmznInputs ==
    {[parts |-> p, header |-> amznHeader(p)] : p \in AmznParts}
        \cup {[parts |-> NoAmznParts, header |-> h] : h \in {Undefined, Num(<<"7">>), Obj}}

InitAwsTraceId ==
    /\ InitRequests
    /\ pureIn \in {[k |-> "amzn", parts |-> in.parts, header |-> in.header, rnd |-> d] :
                      in \in AmznInputs, d \in RequestDraws}
    /\ pureOut = None

\* TraceContext.parseAwsTraceId(header)
ParseAwsTraceId ==
    /\ pureIn.k = "amzn"
    /\ pureOut = None
    /\ pureOut' = [k |-> "tc", tc |-> parseAwsTraceId(pureIn.header, pureIn.rnd)]
    /\ UNCHANGED <<reqVars, pureIn>>

NextAwsTraceId == ParseAwsTraceId

SpecAwsTraceId == InitAwsTraceId /\ [][NextAwsTraceId]_vars

\* contexts with a 32-hex traceId and 2-hex traceFlags
CloudContexts ==
    {[NewTraceContext EXCEPT !.traceId = t, !.spanId = s, !.traceFlags = f] :
        t \in {T32a, Rep("0", TraceIdLen - 1) \o <<"1">>, Rep("9", TraceIdLen)},
        s \in {S16b, Rep("0", SpanIdLen)},
        f \in {<<"0", "0">>, <<"0", "1">>, <<"0", "2">>, <<"0", "3">>, <<"0", "a">>, <<"f", "f">>}}

InitCloudTrace ==
    /\ InitRequests
    /\ pureIn \in [k : {"cloud"}, tc : CloudContexts, rnd : RequestDraws]
    /\ pureOut = None

\* TraceContext.parseCloudTrace(context.toCloudTrace())
CloudTraceRoundTrip ==
    /\ pureIn.k = "cloud"
    /\ pureOut = None
    /\ pureOut' = [k |-> "tc", header |-> toCloudTrace(pureIn.tc),
                    tc |-> parseCloudTrace(Str(toCloudTrace(pureIn.tc)), pureIn.rnd)]
    /\ UNCHANGED <<reqVars, pureIn>>

NextCloudTrace == CloudTraceRoundTrip

SpecCloudTrace == InitCloudTrace /\ [][NextCloudTrace]_vars

\* the segments traceparent values are assembled from
VersionParts == {<<"0", "0">>, <<"0">>, <<"0", "G">>}
TraceIdParts == {T32a, Rep("a", TraceIdLen - 1), Rep("A", TraceIdLen), <<"g">> \o Rep("a", TraceIdLen - 1)}
SpanIdParts == {S16b, Rep("b", SpanIdLen + 1), <<"B">> \o Rep("b", SpanIdLen - 1)}
FlagsParts == {<<"0", "1">>, <<"1">>, <<"0", "x">>}

\* values parseTraceParent is applied to
TraceParentInputs ==
    {Str(v \o <<"-">> \o t \o <<"-">> \o sp \o <<"-">> \o f) :
        v \in VersionParts, t \in TraceIdParts, sp \in SpanIdParts, f \in FlagsParts}
    \cup {Undefined, Str(<<>>), Num(<<"4", "2">>), Obj,
          Str(<<"0", "0">> \o <<"-">> \o T32a \o <<"-">> \o S16b),
          Str(ValidTraceParent \o <<"-">> \o <<"0", "1">>)}

InitTraceParent ==
    /\ InitRequests
    /\ pureIn \in [k : {"traceparent"}, header : TraceParentInputs, rnd : RequestDraws]
    /\ pureOut = None

\* new TraceContext().parseTraceParent(header)
ParseTraceParent ==
    /\ pureIn.k = "traceparent"
    /\ pureOut = None
    /\ pureOut' = [k |-> "tc", tc |-> parseTraceParent(pureIn.header, pureIn.rnd)]
    /\ UNCHANGED <<reqVars, pureIn>>

NextTraceParent == ParseTraceParent

SpecTraceParent == InitTraceParent /\ [][NextTraceParent]_vars

(***************************************************************************)
(* sanitizeValue and sanitizeBody applied to one key and one value         *)
(***************************************************************************)
\* levels of nesting of the deep structures
DeepLevels == 12

\* items of the long array
LongArray == 150

\* characters of filler in front of the long strings
PadLength == 101

\* four-character groups of the base64 string
Base64Groups == 26

\* characters of the large strings
LargeLength == 10001

RECURSIVE nestObjects(_, _)
\* leaf inside n objects
nestObjects(n, leaf) ==
    IF n = 0 THEN leaf ELSE Object(<<Entry(<<"a">>, nestObjects(n - 1, leaf))>>)

RECURSIVE nestArrays(_, _)
\* leaf inside n arrays
nestArrays(n, leaf) == IF n = 0 THEN leaf ELSE Arr(<<nestArrays(n - 1, leaf)>>)

Pad == Rep("x", PadLength)

Secret == Object(<<Entry(<<"P", "a", "s", "s", "w", "o", "r", "d">>, Str(<<"p", "w">>)), Entry(<<"n", "o", "t", "e">>, Str(<<"h", "i">>))>>)

ShortStrings ==
    {<<>>, <<"h", "e", "l", "l", "o">>, <<"c", "a", "r", "d", " ", "4", "1", "1", "1", "-", "1", "1", "1", "1", "-", "1", "1", "1", "1", "-", "1", "1", "1", "1">>, <<"s", "s", "n", " ", "1", "2", "3", "-", "4", "5", "-", "6", "7", "8", "9">>, <<"m", "a", "i", "l", " ", "a", ".", "b", "@", "c", ".", "c", "o">>,
     <<"p", "l", "a", "i", "n", " ", "t", "e", "x", "t">>, <<" ", "n", "o", "t", " ", "j", "s", "o", "n", " ">>, PasswordJson, <<" ", " ", "[", " ", "{", "\"", "t", "o", "k", "e", "n", "\"", ":", "\"", "t", "\"", ",", " ", "\"", "n", "\"", ":", "[", "1", ",", " ", "-", "2", ".", "5", "]", "}", ",", " ", "\"", "s", "\\", "\"", "q", "\"", " ", "]", " ">>,
     <<"{", "\"", "p", "a", "s", "s", "w", "o", "r", "d", "\"", ":", "\"", "s", "e", "c", "r", "e", "t", "\"">>, <<"[", "1", ",", "]">>, <<"{", "\"", "a", "\"", ":", "{", "\"", "b", "\"", ":", "{", "\"", "a", "p", "i", "K", "e", "y", "\"", ":", "\"", "k", "\"", ",", "\"", "c", "\"", ":", "n", "u", "l", "l", "}", "}", "}">>,
     REDACTED, MAX_DEPTH_EXCEEDED, BASE64_REDACTED, IMAGE_URL_REDACTED, IMAGE_DATA_REDACTED,
     BASE64_DATA_REDACTED, CREDIT_CARD_REDACTED, SSN_REDACTED, EMAIL_REDACTED}

LongStrings ==
    {Pad \o <<" ", "4", "1", "1", "1", " ", "1", "1", "1", "1", " ", "1", "1", "1", "1", " ", "1", "1", "1", "1">>, Pad \o <<" ", "1", "2", "3", "-", "4", "5", "-", "6", "7", "8", "9">>, Pad \o <<" ", "a", ".", "b", "@", "c", ".", "c", "o">>,
     Pad \o <<" ", "4", "1", "1", "1", "-", "1", "1", "1", "1", "-", "1", "1", "1", "1", "-", "1", "1", "1", "1", " ", "a", "@", "b", ".", "c", "o">>, Pad \o <<" ", "1", "2", "3", "4", "5", "6", "7", "8", "9", " ", "a", "@", "b", ".", "c", "o">>, Pad \o <<" ", "p", "l", "a", "i", "n">>,
     Rep("A", 4 * Base64Groups), Rep("A", 4 * Base64Groups) \o <<"Q", "Q", "=", "=">>,
     <<"d", "a", "t", "a", ":", "i", "m", "a", "g", "e", "/", "p", "n", "g", ";", "b", "a", "s", "e", "6", "4", ",">> \o Rep("A", PadLength),
     <<"h", "t", "t", "p", ":", "/", "/", "h", "/">> \o Pad \o <<".", "P", "N", "G", "?", "x", "=", "1">>,
     Rep("x", LargeLength), <<"d", "a", "t", "a", ":", "i", "m", "a", "g", "e", "/", "p", "n", "g", ";", "b", "a", "s", "e", "6", "4", ",">> \o Rep("A", LargeLength)}

Structures ==
    {Secret,
     Object(<<Entry(<<"t", "o", "k", "e", "n">>, Secret), Entry(<<"l", "i", "s", "t">>, Arr(<<Secret, Null, Num(<<"7">>)>>)),
              Entry(<<"c", "o", "u", "n", "t">>, Num(<<"0">>)), Entry(<<"c", "a", "r", "d">>, Str(Pad \o <<" ", "4", "1", "1", "1", " ", "1", "1", "1", "1", " ", "1", "1", "1", "1", " ", "1", "1", "1", "1">>)),
              Entry(<<"t", "e", "x", "t">>, Str(PasswordJson)), Entry(<<"c", "b">>, Fn), Entry(<<"n", "o", "n", "e">>, Undefined)>>),
     Arr(<<Str(PasswordJson), Str(<<"p", "l", "a", "i", "n">>), Secret, Bool(FALSE)>>),
     Arr([n \in 1..LongArray |-> Num(decimal(n))]),
     Object(<<Entry(<<"i", "t", "e", "m", "s">>, Arr([n \in 1..(ARRAY_LENGTH + 1) |->
                                      IF n % 50 = 0 THEN Secret ELSE Num(decimal(n))]))>>),
     Arr(<<>>), Object(<<>>),
     nestObjects(JSON_DEPTH - 1, Secret), nestObjects(JSON_DEPTH, Secret),
     nestObjects(DeepLevels, Secret), nestArrays(JSON_DEPTH - 1, Secret),
     nestArrays(DeepLevels, Str(<<"[", "\"", "x", "\"", "]">>)),
     Ref(1), Ref(2)}

\* the values handed to the sanitizers
SanitizeValues ==
    {Undefined, Null, Bool(TRUE), Bool(FALSE), Num(<<"0">>), Num(<<"4", "2">>), Fn}
        \cup {Str(x) : x \in ShortStrings \cup LongStrings} \cup Structures

SanitizeKeys == {<<"p", "a", "s", "s", "w", "o", "r", "d">>, <<"P", "a", "s", "s", "w", "o", "r", "d">>, <<"a", "p", "i", "K", "e", "y">>, <<"n", "o", "t", "e">>, <<"u", "s", "e", "r", "I", "m", "a", "g", "e">>, <<"c", "o", "n", "t", "e", "n", "t">>}

\* LOGGER_SENSITIVE_FIELDS: not set, or set to ' Note '
EnvFields == {<<>>, <<<<" ", "N", "o", "t", "e", " ">>>>}

InitSanitize ==
    /\ InitRequests
    /\ pureIn \in [k : {"sanitize"}, key : SanitizeKeys, value : SanitizeValues, env : EnvFields]
    /\ pureOut = None

\* sanitizeValue(key, value, sensitiveFields) and sanitizeBody(value, sensitiveFields)
Sanitize ==
    /\ pureIn.k = "sanitize"
    /\ pureOut = None
    /\ pureOut' = [k |-> "sanitized",
                   value |-> sanitizeValue(pureIn.key, pureIn.value,
                                           getSensitiveFields(pureIn.env)),
                   body |-> sanitizeBody(pureIn.value, getSensitiveFields(pureIn.env), 0)]
    /\ UNCHANGED <<reqVars, pureIn>>

NextSanitize == Sanitize

SpecSanitize == InitSanitize /\ [][NextSanitize]_vars

(***************************************************************************)
(* The record of the error middleware                                      *)
(***************************************************************************)
InitError ==
    /\ InitRequests
    /\ pureIn \in [k : {"error"}, err : AppErrors, headers : Inbound, path : Paths,
                     rnd : RequestDraws]
    /\ pureOut = None

\* logger.error(formatJsonLog(errorMetadata)) for an error of a request
LogErrorMetadata ==
    /\ pureIn.k = "error"
    /\ pureOut = None
    /\ pureOut' = [k |-> "error record",
                    sent |-> errorSent(pureIn.err,
                                       create(pureIn.headers, logType, pureIn.rnd),
                                       [path |-> pureIn.path], pureIn.rnd)]
    /\ UNCHANGED <<reqVars, pureIn>>

NextError == LogErrorMetadata

SpecError == InitError /\ [][NextError]_vars

(***************************************************************************)
(* The sanitizers called again and again in one process: pureOut holds     *)
(* memoizedChecks, the values of the last calls and what they returned      *)
(***************************************************************************)
\* distinct strings per object handed to the sanitizer
BurstSize == 333

\* objects of distinct strings
MaxBursts == 4

\* the n-th of the distinct strings
distinct(n) == Str(<<"i", "d", "-">> \o decimal(n))

\* values sanitized one at a time
MemoValues ==
    {Str(Rep("A", 4 * Base64Groups)),
     Str(<<"h", "t", "t", "p", ":", "/", "/", "h", "/">> \o Pad \o <<".", "P", "N", "G", "?", "x", "=", "1">>),
     Str(<<>>), Num(<<"7">>), distinct(1)}

MemoKeys == {<<"n", "o", "t", "e">>, <<"p", "a", "s", "s", "w", "o", "r", "d">>}

InitMemo ==
    /\ InitRequests
    /\ logType = "gcp"
    /\ ~logResponseBody
    /\ pureIn = [k |-> "memo"]
    /\ pureOut = [k |-> "memo", memoizedChecks |-> {}, bursts |-> 0, by |-> "none",
                   key |-> <<>>, values |-> <<>>, results |-> <<>>]

\* sanitizeImageData(value)
SanitizeImageData ==
    /\ pureIn.k = "memo"
    /\ \E value \in MemoValues :
         LET call == sanitizeImageDataMemo(pureOut.memoizedChecks, value)
         IN  pureOut' = [pureOut EXCEPT !.memoizedChecks = call.cache,
                            !.by = "sanitizeImageData", !.key = <<>>,
                            !.values = <<value>>, !.results = <<call.result>>]
    /\ UNCHANGED <<reqVars, pureIn>>

\* sanitizeValue(key, value, sensitiveFields)
SanitizeValue ==
    /\ pureIn.k = "memo"
    /\ \E key \in MemoKeys, value \in MemoValues :
         LET call == sanitizeValueMemo(pureOut.memoizedChecks, key, value, getSensitiveFields(<<>>))
         IN  pureOut' = [pureOut EXCEPT !.memoizedChecks = call.cache,
                            !.by = "sanitizeValue", !.key = key,
                            !.values = <<value>>, !.results = <<call.result>>]
    /\ UNCHANGED <<reqVars, pureIn>>

\* sanitizeValue for each field of an object of strings not seen before
SanitizeFields ==
    /\ pureIn.k = "memo"
    /\ pureOut.bursts < MaxBursts
    /\ LET values == [n \in 1..BurstSize |-> distinct(pureOut.bursts * BurstSize + n)]
           each == sanitizeEach(pureOut.memoizedChecks, <<"n", "o", "t", "e">>, values, 1, BurstSize)
       IN  pureOut' = [pureOut EXCEPT !.memoizedChecks = each.cache,
                          !.bursts = @ + 1,
                          !.by = "sanitizeValue", !.key = <<"n", "o", "t", "e">>,
                          !.values = values, !.results = each.results]
    /\ UNCHANGED <<reqVars, pureIn>>

NextMemo == SanitizeImageData \/ SanitizeValue \/ SanitizeFields

SpecMemo == InitMemo /\ [][NextMemo]_vars

(***************************************************************************)
(* The renderers applied to records                                        *)
(***************************************************************************)
\* an id already in the X-Ray shape
XRayId == XRayRoot

\* one optional field of a record
optional(key, values) == {<<>>} \cup {<<Entry(key, v)>> : v \in values}

TraceIdFields ==
    optional(<<"t", "r", "a", "c", "e", "I", "d">>, {Str(T32a), Str(XRayId), Str(RootKey \o <<"g", "a", "r", "b", "a", "g", "e">>),
                           Str(RootKey \o XRayId), Str(<<"z", "z">>)})

SpanIdFields == optional(<<"s", "p", "a", "n", "I", "d">>, {Str(S16b), Str(<<"a", "b">>)})

TimeFields ==
    optional(<<"t", "i", "m", "e", "s", "t", "a", "m", "p">>, {Str(<<"2", "0", "2", "3", "-", "1", "1", "-", "1", "4", "T", "2", "2", ":", "1", "3", ":", "2", "0", ".", "0", "0", "0", "Z">>), Str(<<"y", "e", "s", "t", "e", "r", "d", "a", "y">>)})
        \cup optional(<<"t", "i", "m", "e">>, {Num(<<"1", "7", "0", "0", "0", "0", "0", "0", "0", "0", "0", "0", "0">>)})

\* what pino adds to a record
PinoFields ==
    { <<>>,
      <<Entry(<<"l", "e", "v", "e", "l">>, Str(<<"i", "n", "f", "o">>)), Entry(<<"l", "e", "v", "e", "l", "N", "u", "m", "b", "e", "r">>, Num(<<"3", "0">>)),
        Entry(<<"p", "i", "d">>, Num(<<"7">>)), Entry(<<"h", "o", "s", "t", "n", "a", "m", "e">>, Str(<<"h">>))>>,
      <<Entry(<<"l", "e", "v", "e", "l">>, Num(<<"5", "0">>)), Entry(<<"p", "i", "d">>, Num(<<"7">>)),
        Entry(<<"h", "o", "s", "t", "n", "a", "m", "e">>, Str(<<"h">>))>> }

\* what an earlier GCP-style pass leaves in a record
GcpFields ==
    { <<>>,
      <<Entry(GcpPrefix \o <<"t", "r", "a", "c", "e">>, Str(<<"p", "r", "o", "j", "e", "c", "t", "s", "/", "p", "0", "/", "t", "r", "a", "c", "e", "s", "/", "o", "l", "d">>)),
        Entry(<<"r", "e", "s", "o", "u", "r", "c", "e">>, Str(<<"u", "s", "e", "r", "/", "1">>))>> }

\* a field of the caller's named like the format flag
LogTypeFields == optional(<<"l", "o", "g", "T", "y", "p", "e">>, {Str(<<"a", "u", "d", "i", "t">>), Str(<<"a", "w", "s">>)})

RequestIdFields == optional(<<"r", "e", "q", "u", "e", "s", "t", "I", "d">>, {Str(<<>>), Str(<<"r", "q">>)})

TypeFields == optional(<<"t", "y", "p", "e">>, {Str(<<"r", "e", "q", "u", "e", "s", "t">>)})

FormatObjects ==
    {Object(t \o s \o d \o p \o g \o l \o r \o y) :
        t \in TraceIdFields, s \in SpanIdFields, d \in TimeFields, p \in PinoFields,
        g \in GcpFields, l \in LogTypeFields, r \in RequestIdFields, y \in TypeFields}

\* LOG_TYPE
LogTypes == {<<"a", "w", "s">>, <<"g", "c", "p">>}

InitFormat ==
    /\ InitRequests
    /\ pureIn \in [k : {"format"}, object : FormatObjects, config : LogTypes,
                   rnd : RequestDraws]
    /\ pureOut = None

\* formatJsonLog(log) and formatAwsLog(log)
Format ==
    /\ pureIn.k = "format"
    /\ pureOut = None
    /\ pureOut' = [k |-> "formatted",
                   log |-> formatJsonLogRecord(pureIn.object, pureIn.config,
                                               pureIn.rnd.rid, ClockIso),
                   aws |-> formatAwsLog(pureIn.object, pureIn.config,
                                        pureIn.rnd.rid, ClockIso)]
    /\ UNCHANGED <<reqVars, pureIn>>

NextFormat == Format

SpecFormat == InitFormat /\ [][NextFormat]_vars

(***************************************************************************)
(* The contextual logger (src/logger/base-logger.js)                       *)
(***************************************************************************)
LOG_METHODS == {"trace", "debug", "info", "warn", "error", "fatal"}

\* the backend logger: its level and the bindings child() gave it
BaseLogger == [level |-> "info", bindings |-> <<>>]

\* target.child(bindings)
child(target, bindings) == [target EXCEPT !.bindings = @ \o bindings]

\* the own enumerable properties { ...value } copies: the entries of an
\* object, the characters of a string under their indices, nothing otherwise
ownEntries(value) ==
    IF value.k = "object" THEN value.entries
    ELSE IF value.k = "str"
    THEN [n \in 1..Len(value.s) |-> Entry(decimal(n - 1), Str(<<value.s[n]>>))]
    ELSE <<>>

\* args[n], undefined beyond the arguments given
argument(args, n) == IF n <= Len(args) THEN args[n] ELSE Undefined

\* enrichedData of a log method called with args while context is the
\* ambient request context
enrichedData(args, context, config) ==
    LET first == argument(args, 1)
        second == argument(args, 2)
        logData == IF first.k = "str"
                   THEN spread(<<Entry(<<"m", "e", "s", "s", "a", "g", "e">>, first)>>,
                               IF Truthy(second) THEN ownEntries(second) ELSE <<>>)
                   ELSE IF Truthy(first) THEN ownEntries(first) ELSE <<>>
    IN  Object(spread(logData,
                      <<Entry(<<"r", "e", "q", "u", "e", "s", "t", "I", "d">>, Str(context.requestId)),
                        Entry(<<"t", "r", "a", "c", "e", "I", "d">>, Str(traceIdOf(context))),
                        Entry(<<"s", "p", "a", "n", "I", "d">>, Str(spanIdOf(context))),
                        Entry(<<"s", "e", "r", "v", "i", "c", "e">>, Str(SERVICE_NAME)),
                        Entry(<<"L", "O", "G", "_", "T", "Y", "P", "E">>,
                              or(field(Object(logData), <<"L", "O", "G", "_", "T", "Y", "P", "E">>), Str(config)))>>))

\* the proxy's get trap for a property of the logger over target: a log
\* method calls the target's method with enrichedData, every other property
\* is the target's
getProperty(target, property, args, context, config) ==
    IF property \in LOG_METHODS
    THEN [k |-> "logged", target |-> target, method |-> property,
          record |-> enrichedData(args, context, config)]
    ELSE [k |-> "read", value |-> target[property]]

\* the data callers log
UserData == Object(<<Entry(<<"u", "s", "e", "r", "I", "d">>, Num(<<"7">>))>>)

\* the arguments of a log call: (), (message), (message, data), (data) and
\* pino's (data, message)
LogArgs ==
    { <<>>, <<Str(<<"h", "e", "l", "l", "o">>)>>, <<Str(<<"h", "e", "l", "l", "o">>), UserData>>, <<UserData>>,
      <<UserData, Str(<<"h", "e", "l", "l", "o">>)>> }

\* child() calls between the logger and the one that logs
MaxChildren == 2

RECURSIVE childOf(_, _)
\* the target of the logger n child() calls away from the logger over target
childOf(target, n) ==
    IF n = 0 THEN target ELSE childOf(child(target, <<<<"m", "o", "d", "u", "l", "e">>>>), n - 1)

InitLogger ==
    /\ InitRequests
    /\ pureIn \in [k : {"log"}, property : LOG_METHODS \cup {"level", "bindings"},
                   args : LogArgs, children : 0..MaxChildren, scoped : BOOLEAN,
                   headers : {h \in Inbound : h = NoHeaders \/ Truthy(h.xRequestId)},
                   rnd : RequestDraws]
    /\ pureOut = None

\* logger.child(...)...child(...)[property](...args), inside the scope of a
\* request or outside every scope
Log ==
    /\ pureIn.k = "log"
    /\ pureOut = None
    /\ pureOut' = getProperty(childOf(BaseLogger, pureIn.children), pureIn.property,
                              pureIn.args,
                              IF pureIn.scoped
                              THEN create(pureIn.headers, logType, pureIn.rnd)
                              ELSE NewRequestContext,
                              logTypeText(logType))
    /\ UNCHANGED <<reqVars, pureIn>>

NextLogger == Log

SpecLogger == InitLogger /\ [][NextLogger]_vars

(***************************************************************************)
(* Child contexts (src/context/trace-context.js, src/context/index.js).    *)
(* The traceState and metadata of a context are Map objects: a context     *)
(* holds a reference into maps, the sequence of the Map objects made so far*)
(***************************************************************************)
\* a context created by RequestContext.create, its two Maps placed in maps
load(ctx) ==
    [context |-> [requestId |-> ctx.requestId,
                  traceContext |-> IF ctx.traceContext.k = "null" THEN ctx.traceContext
                                   ELSE [k |-> "tc",
                                         tc |-> [ctx.traceContext.tc EXCEPT !.traceState = 2]],
                  metadata |-> 1],
     maps |-> <<ctx.metadata,
                IF ctx.traceContext.k = "null" THEN <<>> ELSE ctx.traceContext.tc.traceState>>]

\* a faulty variant of createChildSpan: the child is given the parent's Map
createChildSpanSharedState(tc, maps, rnd) ==
    [tc |-> [version |-> tc.version, traceId |-> tc.traceId, spanId |-> rnd.r8,
             traceFlags |-> tc.traceFlags, traceState |-> tc.traceState],
     maps |-> Append(maps, <<>>)]

\* tc.createChildSpan(): the child and the Maps afterwards
createChildSpan(tc, maps, rnd) ==
    [tc |-> [version |-> tc.version, traceId |-> tc.traceId, spanId |-> rnd.r8,
             traceFlags |-> tc.traceFlags, traceState |-> Len(maps) + 1],
     maps |-> Append(maps, maps[tc.traceState])]

\* context.createChildContext(): the child and the Maps afterwards
createChildContext(context, maps, rnd) ==
    LET made == Append(maps, <<>>)
        span == IF context.traceContext.k = "null"
                THEN [tc |-> [generateNew(FALSE, rnd) EXCEPT !.traceState = Len(made) + 1],
                      maps |-> Append(made, <<>>)]
                ELSE createChildSpan(context.traceContext.tc, made, rnd)
    IN  [context |-> [requestId |-> context.requestId,
                      traceContext |-> [k |-> "tc", tc |-> span.tc],
                      metadata |-> Len(maps) + 1],
         maps |-> span.maps]

\* changes made to a child after it was created
MaxChildWrites == 2

\* the entries written into the child's Maps
ChildEntries == {<<<<"v">>, <<"9">>>>, <<<<"c">>, <<"3">>>>}

InitChild ==
    /\ InitRequests
    /\ pureIn \in [k : {"child"}, headers : Inbound, traced : BOOLEAN,
                   rnd : RequestDraws, childRnd : RequestDraws]
    /\ pureOut = None

\* the context the child is made from
parentOf(in) ==
    IF in.traced THEN create(in.headers, logType, in.rnd) ELSE NewRequestContext

\* parent.createChildContext()
CreateChildContext ==
    /\ pureIn.k = "child"
    /\ pureOut = None
    /\ LET parent == load(parentOf(pureIn))
           made == createChildContext(parent.context, parent.maps, pureIn.childRnd)
       IN  pureOut' = [k |-> "family", parent |-> parent.context, child |-> made.context,
                       maps |-> made.maps, writes |-> 0]
    /\ UNCHANGED <<reqVars, pureIn>>

\* child.traceContext.traceState.set(key, value)
SetChildTraceState ==
    /\ pureOut # None /\ pureOut.k = "family"
    /\ pureOut.writes < MaxChildWrites
    /\ \E e \in ChildEntries :
         pureOut' = [pureOut EXCEPT
                        !.maps[pureOut.child.traceContext.tc.traceState] = mapSet(@, e[1], e[2]),
                        !.writes = @ + 1]
    /\ UNCHANGED <<reqVars, pureIn>>

\* child.setMetadata(key, value)
SetChildMetadata ==
    /\ pureOut # None /\ pureOut.k = "family"
    /\ pureOut.writes < MaxChildWrites
    /\ \E e \in ChildEntries :
         pureOut' = [pureOut EXCEPT !.maps[pureOut.child.metadata] = mapSet(@, e[1], e[2]),
                                    !.writes = @ + 1]
    /\ UNCHANGED <<reqVars, pureIn>>

NextChild == CreateChildContext \/ SetChildTraceState \/ SetChildMetadata

SpecChild == InitChild /\ [][NextChild]_vars

(***************************************************************************)
(* Specifications                                                          *)
(***************************************************************************)
\* the requests of the single-request workload
Solo == {"A"}

\* one request at a time, every kind of inbound header, failing log statements
Traffic ==
    [inbound |-> Inbound, paths |-> Paths,
     draws |-> {CHOOSE d \in RequestDraws : TRUE}, fails |-> BOOLEAN]

\* overlapping requests whose handlers await
Overlap ==
    [inbound |-> {NoHeaders}, paths |-> Paths, draws |-> RequestDraws, fails |-> {FALSE}]

Next ==
    \/ \E r \in Solo : RequestLogger(r, Traffic)
    \/ \E r \in Solo : HandlerGet(r)
    \/ \E r \in Solo : Write(r)
    \/ \E r \in Solo : End(r)
    \/ \E r \in Solo : Throw(r)
    \/ \E r \in Solo : ErrorLogger(r)

Spec == Init /\ [][Next]_vars

\* one request at a time, without inbound trace headers
Plain ==
    [inbound |-> {NoHeaders}, paths |-> Paths \cup {WildcardPath} \cup {excludePaths[n] : n \in 1..Len(excludePaths)},
     draws |-> {CHOOSE d \in RequestDraws : TRUE}, fails |-> BOOLEAN]

\* the handler goes on calling write and end after the response is finalized
NextLate ==
    \/ \E r \in Solo : RequestLogger(r, Plain)
    \/ \E r \in Solo : Write(r)
    \/ \E r \in Solo : EndAtEdge(r)
    \/ \E r \in Solo : LateWrite(r)
    \/ \E r \in Solo : LateEnd(r)

SpecLate == Init /\ [][NextLate]_vars

NextOverlap ==
    \/ \E r \in Req : RequestLogger(r, Overlap)
    \/ \E r \in Req : HandlerGet(r)
    \/ \E r \in Req : SetMetadata(r)
    \/ \E r \in Req : Defer(r)
    \/ \E r \in Req : Resume(r)
    \/ OutsideGet

SpecOverlap == Init /\ [][NextOverlap]_vars

(***************************************************************************)
(* Properties                                                              *)
(***************************************************************************)
\* the identifiers of a context
idsOf(ctx) == <<ctx.requestId, traceIdOf(ctx), spanIdOf(ctx)>>

\* C1: whatever the interleaving of the requests in flight,
\* RequestContext.get() called by the handler of a request, or by a
\* continuation it started, returns that request's own context (or the empty
\* context when the request has none), never the identifiers or the metadata
\* of another request; called outside every request scope it returns a context
\* with empty requestId, traceId and spanId, also while requests are in flight.
ContextIsolation ==
    /\ \A r \in Req : obs[r] # None =>
          /\ obs[r].from \in {r, NoStore}
          /\ obs[r].from = r => heap[r] # None /\ idsOf(obs[r].ctx) = idsOf(heap[r])
          /\ obs[r].from = NoStore => obs[r].ctx = NewRequestContext
          /\ \A i \in 1..Len(obs[r].ctx.metadata) : obs[r].ctx.metadata[i] = <<"owner", r>>
    /\ outside # None =>
          /\ outside.from = NoStore
          /\ idsOf(outside.ctx) = << <<>>, <<>>, <<>> >>
          /\ outside.ctx.metadata = <<>>

\* two requests overlap, each has set its metadata and read its own context in
\* a continuation, the contexts differ, and code outside has read the context
\* while one of them awaits
IsolationWitness ==
    /\ \A r \in Req : /\ obs[r] # None /\ obs[r].from = r /\ hops[r] > 0
                      /\ obs[r].ctx.metadata = << <<"owner", r>> >>
    /\ idsOf(heap["A"]) # idsOf(heap["B"])
    /\ phase["A"] = "waiting"
    /\ outside # None

\* the request record the request middleware emitted for r, if any
requestRecords(r) ==
    SelectSeq(logs[r], LAMBDA e : e.by = "requestLogger" /\ e.level = "info")

\* the request id a rendered record carries
recordRequestId(rec) ==
    IF rec.requestId # Undefined THEN rec.requestId
    ELSE rec.labelRequestId

\* the trace id a rendered record carries
recordTraceId(rec) ==
    IF rec.traceId # Undefined THEN rec.traceId
    ELSE IF rec.trace # Undefined /\ startsWith(rec.trace.s, TracePrefix(PROJECT_ID))
    THEN Str(substring(rec.trace.s, Len(TracePrefix(PROJECT_ID))))
    ELSE rec.trace

\* r is not excluded and the request middleware handed it on without an error
Entered(r) == phase[r] # "idle" /\ heap[r] # None /\ nexts[r][1] = Ok

\* C2: for every non-excluded request, RequestContext.get() in the handler and
\* in what runs for the request afterwards returns the one context created at
\* entry, and that context's requestId and traceId are the ones the request
\* log record carries.
ContextMatchesRequestRecord ==
    \A r \in Req : Entered(r) =>
        /\ obs[r] # None => obs[r].from = r /\ idsOf(obs[r].ctx) = idsOf(heap[r])
        /\ Len(requestRecords(r)) = 1
        /\ recordRequestId(requestRecords(r)[1].rec) = Str(heap[r].requestId)
        /\ recordTraceId(requestRecords(r)[1].rec) = Str(traceIdOf(heap[r]))

\* C3: whatever sequence of write and end calls the handler makes, the
\* original write and end receive the same arguments, each call once and in
\* the same order, and what they return is what the handler gets back, with
\* body logging on or off.
PassThrough == \A r \in Req : delivered[r] = calls[r]

\* the end calls of a sequence of calls, with their arguments
endCalls(cs) == SelectSeq(cs, LAMBDA c : c.op = "end")

\* C4: a failure to build or emit the request record or the response record
\* never alters the request path: the request middleware calls next without an
\* error, and every end call of the handler reaches the original end with the
\* handler's arguments.
LoggingNeverAltersRequestPath ==
    \A r \in Req :
        /\ phase[r] # "idle" => nexts[r][1] = Ok
        /\ endCalls(delivered[r]) = endCalls(calls[r])

\* C5: for every error handed to the error middleware, the middleware emits
\* exactly one error-level record, then calls next once with that very error,
\* and leaves the response alone.
ErrorLoggedAndForwarded ==
    [][\A r \in Req : (phase[r] = "error" /\ phase'[r] # "error") =>
          /\ Len(logs'[r]) = Len(logs[r]) + 1
          /\ logs'[r][Len(logs'[r])].level = "error"
          /\ nexts'[r] = Append(nexts[r], Err(pendingErr[r]))
          /\ res'[r] = res[r]]_vars

\* 32 lower-case hex characters, or 1-<8 hex>-<24 hex>
ValidTraceId(t) == IsLowerHex(t, TraceIdLen) \/ IsXRayShape(t)

\* 16 hex characters
ValidSpanId(sp) == Len(sp) = SpanIdLen /\ \A i \in 1..Len(sp) : sp[i] \in HexAny

\* C6: every context RequestContext.create produces, for any inbound headers
\* and either LOG_TYPE, has a traceId of 32 lower-case hex characters or of the
\* AWS shape 1-<8 hex>-<24 hex>, and a spanId of 16 hex characters: a header
\* value that is not well-formed is never accepted into them.
IdsWellFormed ==
    (pureOut # None /\ pureOut.k = "ctx") =>
        /\ ValidTraceId(traceIdOf(pureOut.ctx))
        /\ ValidSpanId(spanIdOf(pureOut.ctx))

\* a traceparent value v-t-s-f of 2, 32, 16 and 2 lower-case hex characters
WellFormedTraceParent(h) ==
    LET d1 == VersionLen + 1
        d2 == d1 + TraceIdLen + 1
        d3 == d2 + SpanIdLen + 1
    IN  /\ Len(h) = d3 + FlagsLen
        /\ \A i \in 1..Len(h) : IF i \in {d1, d2, d3} THEN h[i] = "-" ELSE h[i] \in HexLower

\* C7: for every malformed traceparent value (missing, empty, not a string,
\* not four segments, a character that is not lower-case hex, a segment of the
\* wrong length) parseTraceParent returns, without throwing, a context with a
\* freshly generated 32-hex traceId and 16-hex spanId and the default version
\* and flags: nothing of the header is retained.
MalformedTraceParentReplaced ==
    (/\ pureOut # None
     /\ pureOut.k = "tc"
     /\ ~(pureIn.header.k = "str" /\ WellFormedTraceParent(pureIn.header.s))) =>
        /\ pureOut.tc = [NewTraceContext EXCEPT !.traceId = pureIn.rnd.r16,
                                                !.spanId = pureIn.rnd.r8]
        /\ IsLowerHex(pureOut.tc.traceId, TraceIdLen)
        /\ IsLowerHex(pureOut.tc.spanId, SpanIdLen)

\* a value of the right length and segmentation with an upper-case trace id
\* has been parsed
MalformedTraceParentWitness ==
    /\ pureOut # None
    /\ pureOut.k = "tc"
    /\ pureIn.header = Str(<<"0", "0", "-">> \o Rep("A", TraceIdLen) \o <<"-">> \o S16b
                             \o <<"-", "0", "1">>)

\* C8: a request with a well-formed traceparent v-t-s-f and no
\* x-cloud-trace-context header, handled in GCP mode: the request's context
\* carries v, t and f unchanged and a span id minted for this hop, which is
\* not s; the traceparent header the middleware sets on the response is
\* v-t-<that span id>-f.
TraceParentPropagated ==
    \A r \in Req :
        (/\ logType = "gcp"
         /\ heap[r] # None
         /\ req[r].headers.cloud = Undefined
         /\ req[r].headers.traceparent.k = "str"
         /\ WellFormedTraceParent(req[r].headers.traceparent.s)) =>
            LET h == req[r].headers.traceparent.s
                v == SubSeq(h, 1, VersionLen)
                t == SubSeq(h, VersionLen + 2, VersionLen + 1 + TraceIdLen)
                sp == SubSeq(h, VersionLen + TraceIdLen + 3,
                             VersionLen + TraceIdLen + 2 + SpanIdLen)
                f == SubSeq(h, Len(h) - FlagsLen + 1, Len(h))
                tc == heap[r].traceContext.tc
            IN  /\ tc.version = v
                /\ tc.traceId = t
                /\ tc.traceFlags = f
                /\ IsLowerHex(tc.spanId, SpanIdLen)
                /\ tc.spanId # sp
                /\ res[r].headers.traceparent # Undefined =>
                      res[r].headers.traceparent
                          = Str(v \o <<"-">> \o t \o <<"-">> \o tc.spanId \o <<"-">> \o f)

\* such a request has passed the middleware and its response carries traceparent
TraceParentWitness ==
    \E r \in Req :
        /\ logType = "gcp"
        /\ Entered(r)
        /\ req[r].headers.cloud = Undefined
        /\ req[r].headers.traceparent = Str(ValidTraceParent2)
        /\ res[r].headers.traceparent # Undefined

\* C9: RequestContext.create takes the trace context from one source: in AWS
\* mode the x-amzn-trace-id header when it has a value, else a new AWS-shaped
\* context; otherwise x-cloud-trace-context when it has a value, else
\* traceparent when it has a value, else a new context; the headers of the
\* other mode are ignored, and the tracestate header is parsed into the result.
CreatePrecedence ==
    (pureOut # None /\ pureOut.k = "ctx") =>
        LET h == pureIn.headers
            rnd == pureIn.rnd
            primary ==
                IF logType = "aws"
                THEN IF Truthy(h.amzn) THEN parseAwsTraceId(h.amzn, rnd)
                     ELSE generateNew(TRUE, rnd)
                ELSE IF Truthy(h.cloud) THEN parseCloudTrace(h.cloud, rnd)
                ELSE IF Truthy(h.traceparent) THEN parseTraceParent(h.traceparent, rnd)
                ELSE generateNew(FALSE, rnd)
        IN  /\ pureOut.ctx.traceContext.k = "tc"
            /\ pureOut.ctx.traceContext.tc
                  = [primary EXCEPT !.traceState =
                        IF Truthy(h.tracestate)
                        THEN traceStatePairs(split(h.tracestate.s, <<",">>), <<>>)
                        ELSE <<>>]
            /\ (logType = "aws" /\ ~Truthy(h.amzn)) =>
                  IsXRayShape(traceIdOf(pureOut.ctx))

\* a context was created in GCP mode from headers that carry both
\* x-cloud-trace-context and traceparent, and a tracestate
CreatePrecedenceWitness ==
    /\ pureOut # None
    /\ pureOut.k = "ctx"
    /\ logType = "gcp"
    /\ pureIn.headers.cloud = Str(ValidCloudTrace)
    /\ pureIn.headers.traceparent = Str(ValidTraceParent)
    /\ pureIn.headers.amzn # Undefined
    /\ Len(pureOut.ctx.traceContext.tc.traceState) = 2

\* C10: for every non-excluded request the response carries, when the handler
\* starts, x-request-id equal to the context's requestId, and the trace headers
\* of the mode: x-amzn-trace-id in AWS mode, otherwise traceparent,
\* x-cloud-trace-context and, only for a non-empty trace state, tracestate,
\* each serialized from the request's trace context.
ResponseHeadersSet ==
    \A r \in Req : (Entered(r) /\ phase[r] = "handler") =>
        LET tc == heap[r].traceContext.tc
            hd == res[r].headers
        IN  /\ hd.xRequestId = Str(heap[r].requestId)
            /\ IF logType = "aws"
               THEN hd.amzn # Undefined
               ELSE /\ hd.traceparent = Str(toTraceParent(tc))
                    /\ hd.cloud = Str(toCloudTrace(tc))
                    /\ hd.tracestate = IF tc.traceState # <<>>
                                       THEN Str(toTraceState(tc)) ELSE Undefined

\* the sensitive-field set of the sanitizer call in pureIn
sensitiveOf(in) == getSensitiveFields(in.env)

\* the patterns a string can match
matchesPattern(s) ==
    \/ BASE64_IMAGE(s) \/ BASE64_GENERIC(s) \/ IMAGE_URL(s)
    \/ CREDIT_CARD(s) \/ SSN(s) \/ EMAIL(s)

RECURSIVE redactsBelow(_, _, _, _)
\* out keeps the shape of the structure in at every level below the depth
\* limit, and holds '[REDACTED]' under every sensitive key of those levels
redactsBelow(ref, out, S, depth) ==
    LET in == deref(ref)
    IN  IF depth >= JSON_DEPTH \/ in.k \notin {"arr", "object"} THEN TRUE
        ELSE IF in.k = "arr"
        THEN /\ out.k = "arr"
             /\ \A n \in 1..Len(out.items) :
                    redactsBelow(in.items[n], out.items[n], S, depth + 1)
        ELSE /\ out.k = "object"
             /\ Len(out.entries) = Len(in.entries)
             /\ \A n \in 1..Len(in.entries) :
                  /\ out.entries[n].key = in.entries[n].key
                  /\ IF toLowerCase(in.entries[n].key) \in S
                     THEN out.entries[n].value = Str(REDACTED)
                     ELSE redactsBelow(in.entries[n].value, out.entries[n].value, S, depth + 1)

\* C11: under a key whose lower-cased name is in the sensitive-field set
\* sanitizeValue returns exactly '[REDACTED]' whatever the value is;
\* sanitizeBody does so for every such key at every nesting level below the
\* depth limit; a short string that matches no pattern, under a key that is not
\* in the set, is returned unchanged.
SensitiveKeysRedacted ==
    (pureOut # None /\ pureOut.k = "sanitized") =>
        LET S == sensitiveOf(pureIn)
        IN  /\ toLowerCase(pureIn.key) \in S => pureOut.value = Str(REDACTED)
            /\ redactsBelow(pureIn.value, pureOut.body, S, 0)
            /\ ( /\ toLowerCase(pureIn.key) \notin S
                 /\ pureIn.value.k = "str"
                 /\ Len(pureIn.value.s) <= PATTERN_MIN_LENGTH
                 /\ ~matchesPattern(pureIn.value.s) ) => pureOut.value = pureIn.value

\* a structure was sanitized under the key 'Password': the value is redacted
\* as a whole, and in the body the nested 'Password' is redacted and 'note' kept
SensitiveKeysWitness ==
    /\ pureOut # None
    /\ pureOut.k = "sanitized"
    /\ pureIn.key = <<"P", "a", "s", "s", "w", "o", "r", "d">>
    /\ pureIn.value = nestObjects(JSON_DEPTH - 1, Secret)
    /\ pureOut.value = Str(REDACTED)
    /\ pureOut.body = nestObjects(JSON_DEPTH - 1,
                          Object(<<Entry(<<"P", "a", "s", "s", "w", "o", "r", "d">>, Str(REDACTED)),
                                   Entry(<<"n", "o", "t", "e">>, Str(<<"h", "i">>))>>))

\* C12: sanitization is idempotent: sanitizeBody applied to its own output
\* returns that output, and so does sanitizeValue under the same key; a
\* redaction marker, a size placeholder or a max-depth marker that a first pass
\* produced is not changed by a second pass.
SanitizeIdempotent ==
    (pureOut # None /\ pureOut.k = "sanitized") =>
        LET S == sensitiveOf(pureIn)
        IN  /\ sanitizeBody(pureOut.body, S, 0) = pureOut.body
            /\ sanitizeValue(pureIn.key, pureOut.value, S) = pureOut.value

\* the first pass replaced a JSON text by its sanitized structure, with a
\* redaction marker in it, and replaced the value under the key by a marker
SanitizeIdempotentWitness ==
    /\ pureOut # None
    /\ pureOut.k = "sanitized"
    /\ pureIn.key = <<"p", "a", "s", "s", "w", "o", "r", "d">>
    /\ pureIn.value = Str(PasswordJson)
    /\ pureOut.value = Str(REDACTED)
    /\ pureOut.body = Object(<<Entry(<<"p", "a", "s", "s", "w", "o", "r", "d">>, Str(REDACTED)), Entry(<<"o", "k">>, Bool(TRUE))>>)

RECURSIVE cutAtDepth(_, _, _, _)
\* out is the structure in, descended into below the depth limit, with
\* '[MAX DEPTH EXCEEDED]' in the place of every array and object at the limit
\* and '[REDACTED]' under every sensitive key
cutAtDepth(ref, out, S, depth) ==
    LET in == deref(ref)
    IN  IF in.k \notin {"arr", "object"} THEN TRUE
        ELSE IF depth >= JSON_DEPTH THEN out = Str(MAX_DEPTH_EXCEEDED)
        ELSE IF in.k = "arr"
        THEN /\ out.k = "arr"
             /\ \A n \in 1..Len(out.items) :
                    cutAtDepth(in.items[n], out.items[n], S, depth + 1)
        ELSE /\ out.k = "object"
             /\ [n \in 1..Len(out.entries) |-> out.entries[n].key]
                   = [n \in 1..Len(in.entries) |-> in.entries[n].key]
             /\ \A n \in 1..Len(in.entries) :
                    IF toLowerCase(in.entries[n].key) \in S
                    THEN out.entries[n].value = Str(REDACTED)
                    ELSE cutAtDepth(in.entries[n].value, out.entries[n].value, S, depth + 1)

RECURSIVE nesting(_)
\* the levels of arrays and objects in a value that holds no reference
nesting(v) ==
    LET under == IF v.k = "arr" THEN {nesting(v.items[n]) : n \in 1..Len(v.items)}
                 ELSE IF v.k = "object"
                 THEN {nesting(v.entries[n].value) : n \in 1..Len(v.entries)}
                 ELSE {}
    IN  IF v.k \notin {"arr", "object"} THEN 0
        ELSE IF under = {} THEN 1
        ELSE 1 + CHOOSE d \in under : \A e \in under : e <= d

RECURSIVE selfSanitized(_)
\* what is left of the object that holds itself, n levels of it
selfSanitized(n) ==
    Object(<<Entry(<<"n", "a", "m", "e">>, Str(<<"l", "o", "o", "p">>)), Entry(<<"p", "a", "s", "s", "w", "o", "r", "d">>, Str(REDACTED)),
             Entry(<<"s", "e", "l", "f">>, IF n = 1 THEN Str(MAX_DEPTH_EXCEEDED) ELSE selfSanitized(n - 1))>>)

\* C13: sanitizeBody descends into, and redacts the sensitive keys of, every
\* level below the maximum depth; an array or object at a depth equal to or
\* above the maximum is replaced as a whole by '[MAX DEPTH EXCEEDED]' and not
\* descended into, so that the result of a deep or circular structure is a
\* finite structure of at most the maximum depth.
DepthLimited ==
    (pureOut # None /\ pureOut.k = "sanitized") =>
        /\ cutAtDepth(pureIn.value, pureOut.body, sensitiveOf(pureIn), 0)
        /\ nesting(pureOut.body) <= JSON_DEPTH

\* the circular object was sanitized: ten levels of it are left, the
\* password redacted in each, and the marker stands for the eleventh
DepthLimitedWitness ==
    /\ pureOut # None
    /\ pureOut.k = "sanitized"
    /\ pureIn.value = Ref(1)
    /\ pureOut.body = selfSanitized(JSON_DEPTH)
    /\ nesting(pureOut.body) = JSON_DEPTH

RECURSIVE arraysCut(_, _, _, _)
\* every array of in below the depth limit has, in out, the sanitized images
\* of its first ARRAY_LENGTH elements, in their order, and nothing else
arraysCut(ref, out, S, depth) ==
    LET in == deref(ref)
    IN  IF depth >= JSON_DEPTH \/ in.k \notin {"arr", "object"} THEN TRUE
        ELSE IF in.k = "arr"
        THEN /\ out.k = "arr"
             /\ Len(out.items) = Min(Len(in.items), ARRAY_LENGTH)
             /\ \A n \in 1..Len(out.items) :
                  /\ out.items[n] = sanitizeBody(in.items[n], S, depth + 1)
                  /\ arraysCut(in.items[n], out.items[n], S, depth + 1)
        ELSE /\ out.k = "object"
             /\ Len(out.entries) = Len(in.entries)
             /\ \A n \in 1..Len(in.entries) :
                    toLowerCase(in.entries[n].key) \notin S =>
                        arraysCut(in.entries[n].value, out.entries[n].value, S, depth + 1)

\* C14: an array of n elements given to sanitizeBody, at the top level or
\* nested, comes out with exactly min(n, ARRAY_LENGTH) elements: the sanitized
\* images of its first min(n, ARRAY_LENGTH) elements in their original order.
ArraysTruncated ==
    (pureOut # None /\ pureOut.k = "sanitized") =>
        arraysCut(pureIn.value, pureOut.body, sensitiveOf(pureIn), 0)

\* an array longer than the limit inside an object was sanitized: the limit's
\* number of elements is left, the first the number 1 and the last the
\* sanitized object that stood at the limit's index
ArraysTruncatedWitness ==
    /\ pureOut # None
    /\ pureOut.k = "sanitized"
    /\ pureIn.value.k = "object"
    /\ Len(pureIn.value.entries) = 1
    /\ pureIn.value.entries[1].value.k = "arr"
    /\ Len(pureIn.value.entries[1].value.items) > ARRAY_LENGTH
    /\ Len(pureOut.body.entries[1].value.items) = ARRAY_LENGTH
    /\ pureOut.body.entries[1].value.items[1] = Num(<<"1">>)
    /\ pureOut.body.entries[1].value.items[ARRAY_LENGTH]
          = Object(<<Entry(<<"P", "a", "s", "s", "w", "o", "r", "d">>, Str(REDACTED)), Entry(<<"n", "o", "t", "e">>, Str(<<"h", "i">>))>>)

RECURSIVE quoted(_)
\* the characters of s inside a JSON string literal, escaped where they must be
quoted(s) ==
    LET j == firstOf(s, 1, {"\"", "\\", "\n", "\t", "\r"})
    IN  IF j > Len(s) THEN s
        ELSE SubSeq(s, 1, j - 1)
                 \o (CASE s[j] = "\"" -> <<"\\", "\"">>
                       [] s[j] = "\\" -> <<"\\", "\\">>
                       [] s[j] = "\n" -> <<"\\", "n">>
                       [] s[j] = "\t" -> <<"\\", "t">>
                       [] OTHER -> <<"\\", "r">>)
                 \o quoted(SubSeq(s, j + 1, Len(s)))

\* elements of the arrays that are sanitized as JSON text too
MaxTextItems == 8

RECURSIVE plain(_)
\* v is made of null, booleans, numbers, strings, objects and arrays of at
\* most MaxTextItems elements only
plain(v) ==
    CASE v.k \in {"null", "bool", "num", "str"} -> TRUE
      [] v.k = "arr" -> Len(v.items) <= MaxTextItems /\ \A n \in 1..Len(v.items) : plain(v.items[n])
      [] v.k = "object" -> \A n \in 1..Len(v.entries) : plain(v.entries[n].value)
      [] OTHER -> FALSE

RECURSIVE stringify(_)
\* JSON.stringify(v) for a plain value
stringify(v) ==
    CASE v.k = "null" -> <<"n", "u", "l", "l">>
      [] v.k = "bool" -> IF v.b THEN <<"t", "r", "u", "e">> ELSE <<"f", "a", "l", "s", "e">>
      [] v.k = "num" -> v.s
      [] v.k = "str" -> <<"\"">> \o quoted(v.s) \o <<"\"">>
      [] v.k = "arr" ->
            <<"[">> \o join([n \in 1..Len(v.items) |-> stringify(v.items[n])], <<",">>) \o <<"]">>
      [] v.k = "object" ->
            <<"{">> \o join([n \in 1..Len(v.entries) |->
                               <<"\"">> \o quoted(v.entries[n].key) \o <<"\"", ":">>
                                   \o stringify(v.entries[n].value)], <<",">>) \o <<"}">>

\* the trimmed text starts with '{' or '[' and is JSON text
isJsonText(s) ==
    /\ startsWith(trim(s), <<"{">>) \/ startsWith(trim(s), <<"[">>)
    /\ JSONparse(trim(s)).ok

\* C15: sanitizeBody applied to a string that parses as JSON (its trimmed text
\* starts with '{' or '[') returns what sanitizeBody returns for the parsed
\* structure, so that a structure and its JSON text are sanitized alike and
\* the text of an object with a password and an ok field comes out with
\* password '[REDACTED]' and ok unchanged; a string that is not JSON text is
\* returned unchanged.
JsonTextSanitized ==
    (pureOut # None /\ pureOut.k = "sanitized") =>
        LET S == sensitiveOf(pureIn)
            v == pureIn.value
        IN  /\ (v.k = "str" /\ isJsonText(v.s)) =>
                   pureOut.body = sanitizeBody(JSONparse(trim(v.s)).v, S, 0)
            /\ (v.k = "str" /\ ~isJsonText(v.s)) => pureOut.body = v
            /\ (v.k \in {"arr", "object"} /\ plain(v)) =>
                   sanitizeBody(Str(stringify(v)), S, 0) = pureOut.body
            /\ v = Str(PasswordJson) =>
                   pureOut.body = Object(<<Entry(<<"p", "a", "s", "s", "w", "o", "r", "d">>, Str(REDACTED)),
                                           Entry(<<"o", "k">>, Bool(TRUE))>>)

\* the text of an array that holds an object with a token was sanitized
\* under a key that is not sensitive: the body is an array, the token redacted
JsonTextWitness ==
    /\ pureOut # None
    /\ pureOut.k = "sanitized"
    /\ pureIn.key = <<"n", "o", "t", "e">>
    /\ pureIn.env = <<>>
    /\ pureIn.value.k = "str"
    /\ startsWith(trim(pureIn.value.s), <<"[">>)
    /\ pureOut.body.k = "arr"
    /\ Len(pureOut.body.items) = 2
    /\ pureOut.body.items[1].entries[1] = Entry(<<"t", "o", "k", "e", "n">>, Str(REDACTED))
    /\ pureOut.body.items[2] = Str(<<"s", "\"", "q">>)

\* the typed marker of the first pattern the string matches, in the order
\* data URI, generic base64, credit card, SSN, email; the string when none does
firstPatternMarker(s) ==
    IF startsWith(s, <<"d", "a", "t", "a", ":", "i", "m", "a", "g", "e", "/">>) THEN IMAGE_DATA_REDACTED
    ELSE IF BASE64_GENERIC(s) THEN BASE64_DATA_REDACTED
    ELSE IF CREDIT_CARD(s) THEN CREDIT_CARD_REDACTED
    ELSE IF SSN(s) THEN SSN_REDACTED
    ELSE IF EMAIL(s) THEN EMAIL_REDACTED
    ELSE s

\* C16: under a key that is not sensitive, a non-empty string of at most
\* MAX_REGEX_TEST_SIZE characters is tested against the data-URI, generic
\* base64, credit-card, SSN and email patterns in that order and replaced by the
\* typed marker of the first that matches; a longer string is not tested and
\* is replaced by a placeholder that reports its size in KB. (Stated for the
\* keys that do not hint at an image, an attachment or content, and leaving
\* open what becomes of a string that matches none of the five.)
PatternsTestedInOrder ==
    ( /\ pureOut # None
      /\ pureOut.k = "sanitized"
      /\ toLowerCase(pureIn.key) \notin sensitiveOf(pureIn)
      /\ \A hint \in {<<"i", "m", "a", "g", "e">>, <<"a", "t", "t", "a", "c", "h", "m", "e", "n", "t">>, <<"c", "o", "n", "t", "e", "n", "t">>} :
             ~includes(toLowerCase(pureIn.key), hint)
      /\ pureIn.value.k = "str"
      /\ pureIn.value.s # <<>> ) =>
        LET s == pureIn.value.s
        IN  IF Len(s) > MAX_REGEX_TEST_SIZE
            THEN \E what \in {<<"S", "T", "R", "I", "N", "G">>, <<"B", "A", "S", "E", "6", "4", " ", "D", "A", "T", "A">>, <<"I", "M", "A", "G", "E", " ", "D", "A", "T", "A">>} :
                     pureOut.value = Str(large(what, Len(s)))
            ELSE firstPatternMarker(s) # s => pureOut.value = Str(firstPatternMarker(s))

(***************************************************************************)
(* Rendering of whole records                                              *)
(***************************************************************************)
\* the top-level keys of a rendered record
keysOf(v) == IF v.k = "object" THEN {v.entries[n].key : n \in 1..Len(v.entries)} ELSE {}

formatted == pureOut # None /\ pureOut.k = "formatted"

\* C17: a record rendered while LOG_TYPE is aws has no top-level key that
\* starts with 'logging.googleapis.com/' and no 'resource' key, whatever keys
\* the input brought along
AwsOutputHasNoGcpKeys ==
    (formatted /\ pureIn.config = <<"a", "w", "s">>) =>
        \A key \in keysOf(pureOut.log) : ~startsWith(key, GcpPrefix) /\ key # <<"r", "e", "s", "o", "u", "r", "c", "e">>

\* C18: every object rendered while LOG_TYPE is aws has a severity, a timestamp
\* that is an ISO-8601 string (the current time when the input has neither
\* timestamp nor time), a type ('console_log' when the input has none) and a
\* non-empty requestId (a minted one when the input's is absent or empty)
AwsOutputHasCoreFields ==
    (formatted /\ pureIn.config = <<"a", "w", "s">>) =>
        LET in(key) == field(pureIn.object, key)
            out(key) == field(pureOut.aws, key)
        IN  /\ Truthy(out(<<"s", "e", "v", "e", "r", "i", "t", "y">>))
            /\ out(<<"t", "i", "m", "e", "s", "t", "a", "m", "p">>).k = "str" /\ isIsoString(out(<<"t", "i", "m", "e", "s", "t", "a", "m", "p">>).s)
            /\ (in(<<"t", "i", "m", "e", "s", "t", "a", "m", "p">>) = Undefined /\ in(<<"t", "i", "m", "e">>) = Undefined)
                   => out(<<"t", "i", "m", "e", "s", "t", "a", "m", "p">>) = Str(ClockIso)
            /\ Truthy(out(<<"t", "y", "p", "e">>))
            /\ in(<<"t", "y", "p", "e">>) = Undefined => out(<<"t", "y", "p", "e">>) = Str(<<"c", "o", "n", "s", "o", "l", "e", "_", "l", "o", "g">>)
            /\ out(<<"r", "e", "q", "u", "e", "s", "t", "I", "d">>).k = "str" /\ out(<<"r", "e", "q", "u", "e", "s", "t", "I", "d">>).s # <<>>
            /\ ~Truthy(in(<<"r", "e", "q", "u", "e", "s", "t", "I", "d">>)) => out(<<"r", "e", "q", "u", "e", "s", "t", "I", "d">>) = Str(pureIn.rnd.rid)

\* C19: a record with a non-empty traceId rendered while LOG_TYPE is aws has
\* a traceId of the shape 1-<8 hex>-<24 hex>, an id already in that shape is
\* kept as it is, and the record carries 'x-amzn-trace-id' =
\* 'Root=<that id>;Parent=<16-hex spanId>;Sampled=<0|1>' (the Parent part for
\* a record that has a spanId) and a boolean sampled
AwsTraceIdIsXRay ==
    (formatted /\ pureIn.config = <<"a", "w", "s">> /\ Truthy(field(pureIn.object, <<"t", "r", "a", "c", "e", "I", "d">>))) =>
        LET in(key) == field(pureIn.object, key)
            out(key) == field(pureOut.aws, key)
            id == out(<<"t", "r", "a", "c", "e", "I", "d">>).s
            parent == IF Truthy(in(<<"s", "p", "a", "n", "I", "d">>))
                      THEN <<";">> \o ParentKey \o out(<<"s", "p", "a", "n", "I", "d">>).s ELSE <<>>
        IN  /\ out(<<"t", "r", "a", "c", "e", "I", "d">>).k = "str" /\ IsXRayShape(id)
            /\ IsXRayShape(in(<<"t", "r", "a", "c", "e", "I", "d">>).s) => id = in(<<"t", "r", "a", "c", "e", "I", "d">>).s
            /\ Truthy(in(<<"s", "p", "a", "n", "I", "d">>)) =>
                   /\ Len(out(<<"s", "p", "a", "n", "I", "d">>).s) = SpanIdLen
                   /\ \A i \in 1..SpanIdLen : out(<<"s", "p", "a", "n", "I", "d">>).s[i] \in HexLower
            /\ \E sampled \in {"0", "1"} :
                   out(<<"x", "-", "a", "m", "z", "n", "-", "t", "r", "a", "c", "e", "-", "i", "d">>)
                       = Str(RootKey \o id \o parent \o <<";">> \o SampledKey \o <<sampled>>)
            /\ out(<<"s", "a", "m", "p", "l", "e", "d">>).k = "bool"

\* C20: a record with traceId t and spanId s rendered while LOG_TYPE is gcp
\* and the project id is p has 'logging.googleapis.com/trace' =
\* 'projects/p/traces/t' and 'logging.googleapis.com/spanId' = s, and none of
\* the keys pid, hostname, level, levelNumber
GcpOutputTraceAndStripped ==
    (formatted /\ pureIn.config = <<"g", "c", "p">> /\ PROJECT_ID # <<>>
         /\ Truthy(field(pureIn.object, <<"t", "r", "a", "c", "e", "I", "d">>))
         /\ Truthy(field(pureIn.object, <<"s", "p", "a", "n", "I", "d">>))) =>
        LET in(key) == field(pureIn.object, key)
            out(key) == field(pureOut.log, key)
        IN  /\ out(GcpPrefix \o <<"t", "r", "a", "c", "e">>)
                   = Str(<<"p", "r", "o", "j", "e", "c", "t", "s", "/">> \o PROJECT_ID \o <<"/", "t", "r", "a", "c", "e", "s", "/">> \o in(<<"t", "r", "a", "c", "e", "I", "d">>).s)
            /\ out(GcpPrefix \o <<"s", "p", "a", "n", "I", "d">>) = in(<<"s", "p", "a", "n", "I", "d">>)
            /\ keysOf(pureOut.log)
                   \cap {<<"p", "i", "d">>, <<"h", "o", "s", "t", "n", "a", "m", "e">>, <<"l", "e", "v", "e", "l">>, <<"l", "e", "v", "e", "l", "N", "u", "m", "b", "e", "r">>} = {}

\* the renderer a rendered record came from: only the GCP renderer writes
\* 'logging.googleapis.com/logName', only the AWS renderer writes 'timestamp'
\* into a record that had none
rendererOf(out) == IF GcpPrefix \o <<"l", "o", "g", "N", "a", "m", "e">> \in keysOf(out) THEN "gcp" ELSE "aws"

\* the record without the fields named like the format flag
withoutFlagFields(object) ==
    Object(SelectSeq(object.entries, LAMBDA e : e.key \notin {<<"L", "O", "G", "_", "T", "Y", "P", "E">>, <<"l", "o", "g", "T", "y", "p", "e">>}))

\* C21: the renderer applied to a record is determined by the configured
\* LOG_TYPE alone: a record and the same record without its own LOG_TYPE /
\* logType field are rendered by the same renderer under the same configuration
RendererByFlagOnly ==
    formatted =>
        rendererOf(pureOut.log)
            = rendererOf(formatJsonLogRecord(withoutFlagFields(pureIn.object), pureIn.config,
                                             pureIn.rnd.rid, ClockIso))

\* C22: for every error a handler throws, the record the error middleware
\* hands to the logger has the error's type, message, code, stack and status
\* code (500 when the error has none), whatever LOG_TYPE is
ErrorRecordComplete ==
    (pureOut # None /\ pureIn.k = "error") =>
        LET error == field(pureOut.sent, <<"e", "r", "r", "o", "r">>)
            err == pureIn.err
        IN  /\ field(error, <<"t", "y", "p", "e">>) = or(err.type, err.name)
            /\ field(error, <<"m", "e", "s", "s", "a", "g", "e">>) = err.message
            /\ field(error, <<"c", "o", "d", "e">>) = err.code
            /\ field(error, <<"s", "t", "a", "c", "k">>) = err.stack
            /\ field(error, <<"s", "t", "a", "t", "u", "s", "C", "o", "d", "e">>) = or(err.status, Num(<<"5", "0", "0">>))

\* C22 while LOG_TYPE is gcp
ErrorRecordCompleteGcp == logType = "gcp" => ErrorRecordComplete

(***************************************************************************)
(* The contextual logger                                                   *)
(***************************************************************************)
\* C23: each of the six log methods of the logger, and of a logger obtained
\* through child(), calls the backend's method of the same name with a record
\* that holds the caller's data (the entries of the data object, the message)
\* and the requestId, traceId and spanId of the ambient request context and
\* the service name; every other property is the backend's own
LoggerAddsContext ==
    (pureOut # None /\ pureIn.k = "log") =>
        LET target == childOf(BaseLogger, pureIn.children)
            context == IF pureIn.scoped THEN create(pureIn.headers, logType, pureIn.rnd)
                       ELSE NewRequestContext
            args == pureIn.args
        IN  IF pureIn.property \notin LOG_METHODS
            THEN pureOut = [k |-> "read", value |-> target[pureIn.property]]
            ELSE /\ pureOut.k = "logged"
                 /\ pureOut.target = target
                 /\ pureOut.method = pureIn.property
                 /\ \A n \in 1..Len(args) :
                        IF args[n].k = "str"
                        THEN field(pureOut.record, <<"m", "e", "s", "s", "a", "g", "e">>) = args[n]
                        ELSE \A i \in 1..Len(args[n].entries) :
                                 field(pureOut.record, args[n].entries[i].key)
                                     = args[n].entries[i].value
                 /\ field(pureOut.record, <<"r", "e", "q", "u", "e", "s", "t", "I", "d">>) = Str(context.requestId)
                 /\ field(pureOut.record, <<"t", "r", "a", "c", "e", "I", "d">>) = Str(traceIdOf(context))
                 /\ field(pureOut.record, <<"s", "p", "a", "n", "I", "d">>) = Str(spanIdOf(context))
                 /\ field(pureOut.record, <<"s", "e", "r", "v", "i", "c", "e">>) = Str(SERVICE_NAME)

(***************************************************************************)
(* The response record                                                     *)
(***************************************************************************)
\* the response records of request r
responseRecords(r) == SelectSeq(logs[r], LAMBDA e : e.by = "endInterceptor")

\* C24: the response record is emitted at the level of the status code the
\* response has when it ends: error for 500..599, warn for 400..499, info for
\* every other status and for a missing status
ResponseLevelFromStatus ==
    \A r \in Req : \A n \in 1..Len(responseRecords(r)) :
        LET e == responseRecords(r)[n]
        IN  /\ e.statusCode = res[r].statusCode
            /\ e.level = IF e.statusCode >= 500 /\ e.statusCode <= 599 THEN "error"
                         ELSE IF e.statusCode >= 400 /\ e.statusCode <= 499 THEN "warn"
                         ELSE "info"

ResponseLevelWitness ==
    \E r \in Req : \E n \in 1..Len(responseRecords(r)) :
        responseRecords(r)[n].statusCode = 499 /\ responseRecords(r)[n].level = "warn"

(***************************************************************************)
(* Excluded paths                                                          *)
(***************************************************************************)
\* path is /<one segment><tail>
oneSegmentThen(path, tail) ==
    /\ Len(path) > Len(tail) + 1
    /\ path[1] = "/"
    /\ SubSeq(path, Len(path) - Len(tail) + 1, Len(path)) = tail
    /\ \A i \in 2..(Len(path) - Len(tail)) : path[i] # "/"

\* the excluded paths: the built-in ones and the caller's
excludedPath(path) ==
    \/ path \in {<<"/", "h", "e", "a", "l", "t", "h">>, <<"/", "m", "e", "t", "r", "i", "c", "s">>}
    \/ oneSegmentThen(path, <<"/", "h", "e", "a", "l", "t", "h">>)
    \/ oneSegmentThen(path, <<"/", "m", "e", "t", "r", "i", "c", "s">>)
    \/ \E n \in 1..Len(excludePaths) : path = excludePaths[n]

\* C25: for a request with an excluded path the request middleware calls
\* next once and does nothing else: it emits no request record and no
\* response record, creates and installs no context, sets no header and leaves
\* write and end of the response alone
ExcludedPathUntouched ==
    \A r \in Req :
        (req[r] # None /\ excludedPath(req[r].path)) =>
            /\ nexts[r] # <<>> /\ nexts[r][1] = Ok
            /\ \A n \in 2..Len(nexts[r]) : nexts[r][n] # Ok
            /\ \A n \in 1..Len(logs[r]) : logs[r][n].by = "errorLogger"
            /\ heap[r] = None
            /\ store[r] = NoStore
            /\ res[r].headers = NewResponse.headers
            /\ ~res[r].hooked
            /\ res[r].chunks = <<>>
            /\ delivered[r] = calls[r]

ExcludedPathWitness ==
    \E r \in Req :
        /\ req[r] # None
        /\ req[r].path = <<"/", "v", "1", "/", "m", "e", "t", "r", "i", "c", "s">>
        /\ res[r].ended
        /\ Len(calls[r]) >= 2
        /\ logs[r] = <<>>

(***************************************************************************)
(* Child contexts                                                          *)
(***************************************************************************)
\* C26: the child of createChildContext has the parent's requestId and a
\* child span with the parent's version, traceId and traceFlags, a newly
\* drawn spanId and, when created, the parent's trace-state entries; the
\* parent keeps its traceId, spanId, traceFlags and traceState, and what is
\* later written into the child's traceState or metadata is not in the parent's
ChildContextDerived ==
    (pureOut # None /\ pureIn.k = "child") =>
        LET original == parentOf(pureIn)
            parent == pureOut.parent
            kid == pureOut.child
        IN  /\ kid.requestId = original.requestId
            /\ parent.requestId = original.requestId
            /\ pureOut.maps[parent.metadata] = original.metadata
            /\ original.traceContext.k = "tc" =>
                   LET o == original.traceContext.tc
                       p == parent.traceContext.tc
                       c == kid.traceContext.tc
                   IN  /\ c.version = o.version
                       /\ c.traceId = o.traceId
                       /\ c.traceFlags = o.traceFlags
                       /\ c.spanId = pureIn.childRnd.r8
                       /\ pureOut.writes = 0 => pureOut.maps[c.traceState] = o.traceState
                       /\ p.traceId = o.traceId /\ p.spanId = o.spanId
                       /\ p.version = o.version /\ p.traceFlags = o.traceFlags
                       /\ pureOut.maps[p.traceState] = o.traceState

ChildContextWitness ==
    /\ pureOut # None /\ pureIn.k = "child"
    /\ pureIn.traced
    /\ pureOut.writes = MaxChildWrites
    /\ pureOut.maps[pureOut.parent.traceContext.tc.traceState] = <<<<<<"v">>, <<"1">>>>>>
    /\ pureOut.maps[pureOut.child.traceContext.tc.traceState] = <<<<<<"v">>, <<"9">>>>>>
    /\ pureOut.maps[pureOut.child.metadata] # <<>>
    /\ pureOut.child.traceContext.tc.spanId # pureOut.parent.traceContext.tc.spanId

(***************************************************************************)
(* Order and number of the records of a request                            *)
(***************************************************************************)
\* the original end was invoked for request r
finalized(r) == \E n \in 1..Len(delivered[r]) : delivered[r][n].op = "end"

\* the records of request r as they stand: one request record, first of all,
\* once the handler runs; at most one response record, after the request
\* record and only on a finalized response; a finalized response has its own
\* write and end again
recordsInOrder(r) ==
    /\ Len(requestRecords(r)) <= 1
    /\ Len(responseRecords(r)) <= 1
    /\ (req[r] # None /\ ~excludedPath(req[r].path) /\ nexts[r] # <<>> /\ nexts[r][1] = Ok) =>
           Len(requestRecords(r)) = 1 /\ logs[r][1].by = "requestLogger"
    /\ Len(responseRecords(r)) = 1 =>
           logs[r][1].by = "requestLogger" /\ finalized(r) /\ res[r].ended
    /\ finalized(r) => ~res[r].hooked

\* C27: per request that is not excluded, one request record is emitted
\* before the handler runs; at most one response record is emitted, by the
\* end call that finalizes the response, after the request record and with no
\* original end invoked before it; none is emitted while the response is not
\* finalized; and once it is finalized write and end are the original
\* operations, so that later write and end calls emit nothing
RecordsOrderedAndCounted ==
    [][\A r \in Req :
          /\ recordsInOrder(r)'
          /\ Len(responseRecords(r)') > Len(responseRecords(r)) =>
                 /\ ~finalized(r)
                 /\ Len(delivered'[r]) = Len(delivered[r]) + 1
                 /\ delivered'[r][Len(delivered'[r])].op = "end"
                 /\ calls'[r][Len(calls'[r])] = delivered'[r][Len(delivered'[r])]
          /\ finalized(r) => logs'[r] = logs[r] \/ phase[r] = "error"]_vars

RecordsOrderedWitness ==
    \E r \in Req :
        /\ Len(requestRecords(r)) = 1
        /\ Len(responseRecords(r)) = 1
        /\ Len(calls[r]) = 2
        /\ calls[r][1].op = "end" /\ calls[r][1].result = "res"
        /\ calls[r][2].op = "end" /\ calls[r][2].result = "res"

\* the form 1-<8 hex>-<24 hex> of an X-Ray trace id
isXRayTraceId(id) ==
    /\ Len(id) = 2 + AwsTimeLen + 1 + AwsRandomLen
    /\ SubSeq(id, 1, 2) = <<"1", "-">>
    /\ IsLowerHex(SubSeq(id, 3, 2 + AwsTimeLen), AwsTimeLen)
    /\ id[3 + AwsTimeLen] = "-"
    /\ IsLowerHex(SubSeq(id, 4 + AwsTimeLen, Len(id)), AwsRandomLen)

\* the Root, Parent and Sampled fields of the parsed context are as the header says
awsFieldsTaken(p, tc, rnd) ==
    /\ tc.traceId = p.root
    /\ IsLowerHex(tc.spanId, SpanIdLen)
    /\ p.parent = <<>> => tc.spanId = rnd.r8
    /\ IsLowerHex(p.parent, SpanIdLen) => tc.spanId = p.parent
    /\ tc.traceFlags = <<"0", "0">> <=> p.sampled = <<"0">>
    /\ tc.traceFlags \in {<<"0", "0">>, <<"0", "1">>}

\* C28: parseAwsTraceId returns a context for every header value; without a
\* Root field (or for an empty or non-string value) the context is freshly
\* generated with a traceId of the form 1-<8 hex>-<24 hex>; with a Root field
\* the traceId is the Root value, the spanId is the Parent value as 16 hex
\* characters or a fresh one, and the context is unsampled exactly when Sampled=0
AwsTraceIdParsed ==
    (pureIn # None /\ pureIn.k = "amzn" /\ pureOut # None) =>
        IF pureIn.parts.root = <<>>
        THEN /\ isXRayTraceId(pureOut.tc.traceId)
             /\ pureOut.tc.spanId = pureIn.rnd.r8
        ELSE awsFieldsTaken(pureIn.parts, pureOut.tc, pureIn.rnd)

\* the part of C28 about headers that carry a Root field
AwsRootTaken ==
    (pureIn # None /\ pureIn.k = "amzn" /\ pureOut # None /\ pureIn.parts.root # <<>>) =>
        awsFieldsTaken(pureIn.parts, pureOut.tc, pureIn.rnd)

\* bit 0 of the 2-hex traceFlags
sampledBit(traceFlags) ==
    traceFlags[Len(traceFlags)] \in {"1", "3", "5", "7", "9", "b", "d", "f"}

\* C29: parsing the x-cloud-trace-context value a context serializes to gives
\* back the context's traceId and its sampling decision, bit 0 of traceFlags,
\* which the serialized value carries as o=1 or o=0
CloudTraceInverse ==
    (pureIn # None /\ pureIn.k = "cloud" /\ pureOut # None) =>
        /\ pureOut.tc.traceId = pureIn.tc.traceId
        /\ sampledBit(pureOut.tc.traceFlags) <=> sampledBit(pureIn.tc.traceFlags)
        /\ pureOut.header =
               pureIn.tc.traceId \o <<"/">> \o pureIn.tc.spanId
                   \o (IF sampledBit(pureIn.tc.traceFlags) THEN <<";", "o", "=", "1">> ELSE <<";", "o", "=", "0">>)

\* C29 for the contexts whose traceFlags are 00, 01 or 02
CloudTraceInverseNoOtherBits ==
    (pureIn # None /\ pureIn.k = "cloud" /\ pureIn.tc.traceFlags \in {<<"0", "0">>, <<"0", "1">>, <<"0", "2">>}) =>
        CloudTraceInverse

\* C29's part about the traceId
CloudTraceIdKept ==
    (pureIn # None /\ pureIn.k = "cloud" /\ pureOut # None) =>
        pureOut.tc.traceId = pureIn.tc.traceId

\* C30: memoizedChecks never holds more than 1000 entries, every entry maps a
\* string to what sanitizeImageData computes for it without the map, and a
\* call returns what the sanitizer computes without the map, whatever was
\* sanitized before and whether or not the map is full
MemoBoundedAndTransparent ==
    (pureOut # None /\ pureOut.k = "memo") =>
        /\ Cardinality(pureOut.memoizedChecks) <= MEMO_LIMIT
        /\ \A e \in pureOut.memoizedChecks : e.result = sanitizeImageData(Str(e.key))
        /\ Cardinality({e.key : e \in pureOut.memoizedChecks}) = Cardinality(pureOut.memoizedChecks)
        /\ Len(pureOut.results) = Len(pureOut.values)
        /\ \A n \in 1..Len(pureOut.values) :
              pureOut.results[n] =
                  IF pureOut.by = "sanitizeImageData"
                  THEN sanitizeImageData(pureOut.values[n])
                  ELSE sanitizeValue(pureOut.key, pureOut.values[n], getSensitiveFields(<<>>))

\* the map is full and a base64 string it does not hold has been sanitized
MemoFullWitness ==
    /\ pureOut # None /\ pureOut.k = "memo"
    /\ Cardinality(pureOut.memoizedChecks) = MEMO_LIMIT
    /\ pureOut.by = "sanitizeImageData"
    /\ pureOut.values = <<Str(Rep("A", 4 * Base64Groups))>>
    /\ pureOut.results = <<Str(BASE64_REDACTED)>>
    /\ \A e \in pureOut.memoizedChecks : e.key # Rep("A", 4 * Base64Groups)
    /\ \E e \in pureOut.memoizedChecks : e.result = Str(IMAGE_URL_REDACTED)

====
